---- MODULE Spec2Model ----
(***************************************************************************)
(* A model of magetools' spell discovery and synchronisation               *)
(* (src/src/magetools/spellsync.py): the manifest loader, the admission    *)
(* policy, the discovery scanner that fills the registry, and the spell    *)
(* synchroniser that diffs the registry against the per-collection index.  *)
(*                                                                         *)
(* Conventions.                                                            *)
(*  - A dotted string is a sequence of dot-free segments: the directory    *)
(*    "fire.v2" is <<"fire", "v2">>, the registry key "arcane.f" is        *)
(*    <<"arcane", "f">>.  Joining with "." is concatenation of sequences   *)
(*    and str.split(".") is the identity on them.                          *)
(*  - A Python dict read with .get is a record that carries the set of     *)
(*    keys it holds (field keys); None is a dict record with isNone set.   *)
(*  - Manifest values are those of the manifest schema: enabled a boolean, *)
(*    whitelist and blacklist lists of names.                              *)
(***************************************************************************)
EXTENDS Integers, Sequences, FiniteSets, TLC

VARIABLES
    \* ---- admission policy calls (_is_spell_allowed) ----
    polName,      \* spell_name of the last call
    polManifest,  \* manifest of the last call
    polResult,    \* its return value
    polCalled,    \* whether a call has been made
    \* ---- discovery (discover_and_load_spells) ----
    registry,     \* SpellSync.registry: qualified id -> spell object
    regLog,       \* the registrations (registry[key] = obj) made by the last pass
    loaded,       \* the files the last pass handed to the import machinery
    raised,       \* whether the last pass let an exception escape
    lastRoot,     \* the directory tree the last pass ran over
    lastStrict,   \* its strict_mode argument
    passes,       \* number of discovery passes so far
    \* ---- spell synchronisation (SpellSync.sync_spells) ----
    index,        \* the vector store: collection name -> (id -> entry)
    syncCalls,    \* number of sync_spells calls so far
    lastSync,     \* the last sync_spells call: its registry, fault and effects
    prevSync,     \* the sync_spells call before it
    \* ---- content hasher (SpellSync._compute_grimorium_hash) ----
    folder,       \* a collection directory: file name -> content
    hashCalls,    \* number of hash calls so far
    lastHash,     \* the last call: its digest, read failures, edits since the call before
    prevHash,     \* the call before it
    edits,        \* the edits of the folder so far
    \* ---- metadata synchroniser (sync_grimoriums_metadata[_async]) ----
    grimoriums,   \* the directories under MAGETOOLS_ROOT
    cacheFile,    \* grimorium_summary.md of each directory that has one
    masterIndex,  \* the master index: collection id -> entry
    pc,           \* the tasks of the concurrent run: where each one is
    sem,          \* the free permits of its semaphore
    taskLocal,    \* current_hash of each task awaiting its summary
    results,      \* the tuples the tasks have returned
    lastMeta,     \* the last run: variant, fault, calls made, upserts issued
    prevMeta,     \* the run before it: how it ended, the sources it read
    metaRuns,     \* number of runs so far
    \* ---- search and access guard ----
    vector_store,         \* the vector store: collection name -> collection
    allowed_collections,  \* self.allowed_collections
    top_spells,   \* self.top_spells
    lastSearch,   \* the last call: its arguments, queries issued and result
    \* ---- the toolset (Grimorium) ----
    _initialized, \* self._initialized
    _strict_mode, \* self._strict_mode
    lastCall,     \* the last call on the toolset and what it did
    awaiting,     \* the initialize() calls made in overlap: where each one is
    \* ---- single functions called on their own ----
    lastPrompt,   \* the last summarisation prompt built, and its docstrings
    lastInject    \* the last preparation of a spell's call arguments

polVars == <<polName, polManifest, polResult, polCalled>>

discVars == <<registry, regLog, loaded, raised, lastRoot, lastStrict, passes>>

syncVars == <<index, syncCalls, lastSync, prevSync>>

hashVars == <<folder, hashCalls, lastHash, prevHash, edits>>

metaVars ==
    <<grimoriums, cacheFile, masterIndex, pc, sem, taskLocal, results,
      lastMeta, prevMeta, metaRuns>>

searchVars == <<vector_store, allowed_collections, top_spells, lastSearch>>

grimVars == <<_initialized, _strict_mode, lastCall, awaiting>>

unitVars == <<lastPrompt, lastInject>>

vars ==
    <<polVars, discVars, syncVars, hashVars, metaVars, searchVars, grimVars, unitVars>>

----------------------------------------------------------------------------
(* Names and manifests *)

\* Local spell names (obj.__name__), in the order inspect.getmembers yields them.
SpellNames == <<"f", "g">>

Names == {SpellNames[i] : i \in 1..Len(SpellNames)}

ManifestKeys == {"enabled", "whitelist", "blacklist", "version"}

\* Python None, as returned by _load_manifest for a missing or unusable file.
None == [isNone |-> TRUE, keys |-> {}, enabled |-> TRUE, whitelist |-> {}, blacklist |-> {}]

\* A parsed manifest dict holding exactly the keys ks.
Dict(ks, e, w, b) ==
    [isNone |-> FALSE, keys |-> ks,
     enabled |-> IF "enabled" \in ks THEN e ELSE TRUE,
     whitelist |-> IF "whitelist" \in ks THEN w ELSE {},
     blacklist |-> IF "blacklist" \in ks THEN b ELSE {}]

\* Every manifest object of the schema over Names.
ManifestDicts ==
    {Dict(ks, e, w, b) : ks \in SUBSET ManifestKeys, e \in BOOLEAN,
                         w \in SUBSET Names, b \in SUBSET Names}

\* dict.get(key, default)
Get(d, key, default) == IF key \in d.keys THEN d[key] ELSE default

\* Python truthiness of a manifest value: None and the empty dict are falsy.
Truthy(d) == ~d.isNone /\ d.keys # {}

\* A plausible slip: a whitelisted name is admitted without reading the blacklist.
IsSpellAllowedWhitelistWins(spell_name, manifest) ==
    IF manifest.isNone THEN TRUE
    ELSE IF ~Get(manifest, "enabled", TRUE) THEN FALSE
    ELSE IF "whitelist" \in manifest.keys
         THEN spell_name \in manifest.whitelist
         ELSE spell_name \notin Get(manifest, "blacklist", {})

\* _is_spell_allowed
IsSpellAllowed(spell_name, manifest) ==
    IF manifest.isNone THEN TRUE
    ELSE IF ~Get(manifest, "enabled", TRUE) THEN FALSE
    ELSE LET whitelist == IF "whitelist" \in manifest.keys
                          THEN <<manifest.whitelist>> ELSE <<>>
             blacklist == Get(manifest, "blacklist", {})
         IN  IF whitelist # <<>> /\ spell_name \notin whitelist[1] THEN FALSE
             ELSE IF spell_name \in blacklist THEN FALSE
             ELSE TRUE

----------------------------------------------------------------------------
(* The directory tree read by discovery *)

\* A member of a loaded module, as inspect.getmembers yields it.  kind:
\*   "spell"  its _grimorium_spell marker is True
\*   "plain"  it carries no marker
\*   "raiser" reading its marker or its __name__ raises
\* doc is its __doc__ ("" when it has none); override is <<c>> when it carries
\* the collection attribute with value c, and <<>> when it does not.
MemberWith(n, k, d, o) == [name |-> n, kind |-> k, doc |-> d, override |-> o]

Member(n, k) == MemberWith(n, k, "d1", <<>>)

\* A *.py file of a collection.  hidden: its name starts with "." or "_".
\* status:
\*   "syntax" open() or ast.parse raises
\*   "raise"  spec_from_file_location or exec_module raises
\*   "ok"     the module executes and then has the members listed
PyFile(h, s, ms) == [hidden |-> h, status |-> s, members |-> ms]

FileKinds ==
    { PyFile(FALSE, "syntax", <<>>),
      PyFile(FALSE, "raise", <<>>),
      PyFile(FALSE, "ok", <<Member("f", "spell")>>),
      PyFile(FALSE, "ok", <<Member("f", "spell"), Member("g", "spell")>>),
      PyFile(FALSE, "ok", <<Member("f", "plain"), Member("g", "spell")>>),
      PyFile(FALSE, "ok", <<Member("f", "spell"), Member("g", "raiser")>>),
      PyFile(TRUE,  "ok", <<Member("f", "spell")>>) }

\* The files of a collection in the order rglob yields them; the file at
\* position i has the stem Stems[i].
Stems == <<"a", "b">>

FileLists ==
    {<<>>} \cup {<<x>> : x \in FileKinds} \cup {<<x, y>> : x, y \in FileKinds}

\* manifest.json of a collection: missing, unusable (unreadable, bad JSON, or
\* JSON that is not an object), or a JSON object.
ManifestFile(s, d) == [state |-> s, json |-> d]

ManifestFiles ==
    { ManifestFile("missing", None),
      ManifestFile("invalid", None),
      ManifestFile("object", Dict({}, TRUE, {}, {})),
      ManifestFile("object", Dict({"version"}, TRUE, {}, {})),
      ManifestFile("object", Dict({"enabled"}, TRUE, {}, {})),
      ManifestFile("object", Dict({"enabled"}, FALSE, {}, {})),
      ManifestFile("object", Dict({"enabled", "whitelist"}, FALSE, {"f"}, {})),
      ManifestFile("object", Dict({"whitelist"}, TRUE, {"f"}, {})),
      ManifestFile("object", Dict({"whitelist"}, TRUE, {}, {})),
      ManifestFile("object", Dict({"blacklist"}, TRUE, {}, {"f"})),
      ManifestFile("object", Dict({"whitelist", "blacklist"}, TRUE, {"f", "g"}, {"g"})) }

\* An entry of the root directory.  hidden: its name starts with "." or "_".
DirEntry(n, h, d, mf, fs) ==
    [name |-> n, hidden |-> h, isDir |-> d, manifestFile |-> mf, files |-> fs]

Arcane == <<"arcane">>

FireV2 == <<"fire", "v2">>

Private == <<"_private">>

ArcaneEntries ==
    {DirEntry(Arcane, FALSE, TRUE, mf, fs) : mf \in ManifestFiles, fs \in FileLists}

\* The sibling collection takes a few of these shapes only.
FireEntries ==
    { DirEntry(FireV2, FALSE, TRUE, ManifestFile("missing", None),
               <<PyFile(FALSE, "ok", <<Member("f", "spell")>>)>>),
      DirEntry(FireV2, FALSE, TRUE, ManifestFile("object", Dict({"blacklist"}, TRUE, {}, {"f"})),
               <<PyFile(FALSE, "ok", <<Member("f", "spell"), Member("g", "spell")>>)>>),
      DirEntry(FireV2, FALSE, TRUE, ManifestFile("object", Dict({"version"}, TRUE, {}, {})),
               <<PyFile(FALSE, "raise", <<>>), PyFile(FALSE, "ok", <<Member("g", "spell")>>)>>),
      DirEntry(FireV2, FALSE, FALSE, ManifestFile("missing", None), <<>>) }

PrivateEntries ==
    { DirEntry(Private, TRUE, TRUE, ManifestFile("object", Dict({"version"}, TRUE, {}, {})),
               <<PyFile(FALSE, "ok", <<Member("f", "spell")>>)>>) }

\* The root: whether it exists and its entries in iterdir order.
Root(e, es) == [exists |-> e, entries |-> es]

OneOrNone(S) == {<<>>} \cup {<<x>> : x \in S}

Roots ==
    {Root(FALSE, <<>>)} \cup
    {Root(TRUE, a \o b \o p) :
        a \in OneOrNone(ArcaneEntries), b \in OneOrNone(FireEntries),
        p \in OneOrNone(PrivateEntries)}

\* The trees of the passes before the last one.
SeedRoots ==
    { Root(TRUE, <<DirEntry(Arcane, FALSE, TRUE, ManifestFile("missing", None),
                            <<PyFile(FALSE, "ok", <<Member("f", "spell"), Member("g", "spell")>>)>>)>>),
      Root(TRUE, <<DirEntry(Arcane, FALSE, TRUE, ManifestFile("object", Dict({"version"}, TRUE, {}, {})),
                            <<PyFile(FALSE, "ok", <<Member("f", "spell")>>),
                              PyFile(FALSE, "ok", <<Member("f", "spell"), Member("g", "spell")>>)>>),
                   DirEntry(FireV2, FALSE, TRUE, ManifestFile("object", Dict({"version"}, TRUE, {}, {})),
                            <<PyFile(FALSE, "ok", <<Member("g", "spell")>>)>>)>>),
      Root(TRUE, <<>>) }

----------------------------------------------------------------------------
(* discover_and_load_spells *)

ModulePrefix == <<"magetools", "discovered_spells">>

\* f"magetools.discovered_spells.{collection_name}.{py_file.stem}"
ModuleName(collection_name, stem) == ModulePrefix \o collection_name \o <<stem>>

\* The function object a loaded module defines under a name.
SpellObj(collection_name, stem, member) ==
    [module |-> ModuleName(collection_name, stem), name |-> member.name,
     doc |-> member.doc, override |-> member.override]

\* f"{collection_name}.{spell_name}"
Key(collection_name, spell_name) == collection_name \o <<spell_name>>

\* registry[key] = obj
Put(reg, key, obj) ==
    [k \in DOMAIN reg \cup {key} |-> IF k = key THEN obj ELSE reg[k]]

EmptyRegistry == [k \in {} |-> k]

\* The running state of a pass: the registry, what the pass has registered and
\* loaded, and whether an exception is propagating.
PassState(reg) == [registry |-> reg, regLog |-> {}, loaded |-> {}, exc |-> FALSE]

\* A loader that keeps only the two list keys it knows.
LoadManifestListsOnly(entry) ==
    IF entry.manifestFile.state = "object"
    THEN LET d == entry.manifestFile.json
         IN  Dict(d.keys \ {"enabled"}, TRUE, d.whitelist, d.blacklist)
    ELSE None

\* _load_manifest
LoadManifest(entry) ==
    IF entry.manifestFile.state = "missing" THEN None
    ELSE IF entry.manifestFile.state = "invalid" THEN None
    ELSE entry.manifestFile.json

\* The gate applied whatever strict_mode says.
StrictGateAlways(strict_mode, manifest) == ~Truthy(manifest)

\* if strict_mode and not manifest: ... continue
StrictGate(strict_mode, manifest) == strict_mode /\ ~Truthy(manifest)

\* The disabled check dropped, admission being left to _is_spell_allowed.
DisabledGateNever(manifest) == FALSE

\* if manifest and not manifest.get("enabled", True): continue
DisabledGate(manifest) == Truthy(manifest) /\ ~Get(manifest, "enabled", TRUE)

\* The body of the member loop for a marked member: the manifest check, then
\* registry[key] = obj.
Register(collection_name, stem, manifest, member, st) ==
    IF ~IsSpellAllowed(member.name, manifest) THEN st
    ELSE LET obj == SpellObj(collection_name, stem, member)
             key == Key(collection_name, member.name)
         IN  [st EXCEPT !.registry = Put(st.registry, key, obj),
                        !.regLog = st.regLog \cup {<<key, obj>>}]

\* for name, obj in inspect.getmembers(module): ...
RECURSIVE ScanMembers(_, _, _, _, _, _)
ScanMembers(collection_name, stem, manifest, members, i, st) ==
    IF i > Len(members) THEN st
    ELSE IF members[i].kind = "raiser" THEN [st EXCEPT !.exc = TRUE]
    ELSE IF members[i].kind = "spell"
         THEN ScanMembers(collection_name, stem, manifest, members, i + 1,
                          Register(collection_name, stem, manifest, members[i], st))
         ELSE ScanMembers(collection_name, stem, manifest, members, i + 1, st)

\* The handler left out: the exception of one file propagates.
CatchLoadErrorReraise(st) == st

\* except Exception as e: logger.warning(...)
CatchLoadError(st) == [st EXCEPT !.exc = FALSE]

\* The body of the file loop for one public file: the syntax pre-check, then
\* the import and the scan inside try/except.
LoadFile(collection_name, stem, manifest, file, st) ==
    IF file.status = "syntax" THEN st
    ELSE LET imported == [st EXCEPT !.loaded = st.loaded \cup {<<collection_name, stem>>}]
         IN  CatchLoadError(
                 IF file.status = "raise" THEN [imported EXCEPT !.exc = TRUE]
                 ELSE ScanMembers(collection_name, stem, manifest, file.members, 1, imported))

\* for py_file in collection_dir.rglob("*.py"): ...
RECURSIVE LoadFiles(_, _, _, _, _)
LoadFiles(collection_name, manifest, files, i, st) ==
    IF i > Len(files) \/ st.exc THEN st
    ELSE IF files[i].hidden THEN LoadFiles(collection_name, manifest, files, i + 1, st)
    ELSE LoadFiles(collection_name, manifest, files, i + 1,
                   LoadFile(collection_name, Stems[i], manifest, files[i], st))

\* The body of the directory loop.
ScanCollection(entry, strict_mode, st) ==
    IF ~entry.isDir \/ entry.hidden THEN st
    ELSE LET manifest == LoadManifest(entry)
         IN  IF StrictGate(strict_mode, manifest) THEN st
             ELSE IF DisabledGate(manifest) THEN st
             ELSE LoadFiles(entry.name, manifest, entry.files, 1, st)

\* for collection_dir in search_path.iterdir(): ...
RECURSIVE ScanRoot(_, _, _, _)
ScanRoot(entries, strict_mode, i, st) ==
    IF i > Len(entries) \/ st.exc THEN st
    ELSE ScanRoot(entries, strict_mode, i + 1, ScanCollection(entries[i], strict_mode, st))

\* discover_and_load_spells(root_path, registry, strict_mode)
DiscoverAndLoadSpells(root, reg, strict_mode) ==
    IF ~root.exists THEN PassState(reg)
    ELSE ScanRoot(root.entries, strict_mode, 1, PassState(reg))

----------------------------------------------------------------------------
(* SpellSync.sync_spells *)

\* hashlib.md5(text).hexdigest(), taken as collision-free.
Md5(text) == <<"md5", text>>

\* The collection a spell is routed to: the third segment of its module name,
\* "default_grimorium" when the module is not a discovered one, and the
\* collection attribute when the spell carries it.
BookName(spell_func) ==
    IF spell_func.override # <<>> THEN spell_func.override[1]
    ELSE IF Len(spell_func.module) >= 3 /\ SubSeq(spell_func.module, 1, 2) = ModulePrefix
         THEN spell_func.module[3]
         ELSE "default_grimorium"

\* book_buckets: the bucket names, and the registry keys of a bucket.
Buckets(reg) == {BookName(reg[k]) : k \in DOMAIN reg}

BucketKeys(reg, book_name) == {k \in DOMAIN reg : BookName(reg[k]) = book_name}

EmptyIndex == [c \in {} |-> c]

EmptyCollection == [id \in {} |-> id]

\* vector_store.get_or_create_collection(name)
GetOrCreate(idx, name) ==
    IF name \in DOMAIN idx THEN idx
    ELSE [c \in DOMAIN idx \cup {name} |-> IF c = name THEN EmptyCollection ELSE idx[c]]

\* existing_hashes: id -> stored hash, {} when collection.get raises.
ExistingHashes(collection, fault) ==
    IF fault = "get" THEN EmptyCollection
    ELSE [id \in DOMAIN collection |-> collection[id].hash]

\* Every spell staged, whatever is stored.
StagedAll(reg, keys, existing_hashes) == keys

\* ids: the spells of the bucket that are new or whose doc hash differs.
Staged(reg, keys, existing_hashes) ==
    {k \in keys : ~(k \in DOMAIN existing_hashes /\ existing_hashes[k] = Md5(reg[k].doc))}

\* collection.upsert(ids, documents, metadatas)
Upsert(idx, name, ids, reg) ==
    [idx EXCEPT ![name] =
        [id \in DOMAIN idx[name] \cup ids |->
            IF id \in ids THEN [document |-> reg[id].doc, hash |-> Md5(reg[id].doc)]
            ELSE idx[name][id]]]

\* The kinds of failure of the vector store in one bucket: opening its
\* collection, reading it, or upserting into it raises.
FaultKinds == {"open", "get", "upsert"}

NoFault == [bucket |-> "", kind |-> "none"]

FaultIn(fault, book_name) == IF fault.bucket = book_name THEN fault.kind ELSE "none"

\* The running state of a call: the index, the upsert calls issued, the tally
\* of skipped spells.
SyncState(idx) == [index |-> idx, upserts |-> {}, skipped |-> 0, exc |-> FALSE]

\* The exception of a bucket left to propagate out of the loop.
CatchSyncErrorReraise(st) == st

\* except Exception as e: logger.error(...)
CatchSyncError(st) == [st EXCEPT !.exc = FALSE]

\* The body of the bucket loop, inside try/except.
SyncBucket(reg, book_name, fault, st) ==
    CatchSyncError(
        IF fault = "open" THEN [st EXCEPT !.exc = TRUE]
        ELSE LET opened == GetOrCreate(st.index, book_name)
                 keys == BucketKeys(reg, book_name)
                 ids == Staged(reg, keys, ExistingHashes(opened[book_name], fault))
             IN  [index |-> IF ids = {} \/ fault = "upsert" THEN opened
                            ELSE Upsert(opened, book_name, ids, reg),
                  upserts |-> IF ids = {} THEN st.upserts
                              ELSE st.upserts \cup {[bucket |-> book_name, ids |-> ids]},
                  skipped |-> st.skipped + Cardinality(keys \ ids),
                  exc |-> ids # {} /\ fault = "upsert"])

\* for book_name, spells in book_buckets.items(): ...
RECURSIVE SyncBuckets(_, _, _, _)
SyncBuckets(reg, todo, fault, st) ==
    IF todo = {} \/ st.exc THEN st
    ELSE LET book_name == CHOOSE b \in todo : TRUE
         IN  SyncBuckets(reg, todo \ {book_name}, fault,
                         SyncBucket(reg, book_name, FaultIn(fault, book_name), st))

\* sync_spells()
SyncSpells(reg, idx, fault) ==
    IF DOMAIN reg = {} THEN SyncState(idx)
    ELSE SyncBuckets(reg, Buckets(reg), fault, SyncState(idx))

----------------------------------------------------------------------------
(* Content hasher: SpellSync._compute_grimorium_hash                        *)
(* A file name and a file content are sequences of bytes; ".py" stands for  *)
(* the bytes of the suffix.  A folder maps the names of its files to their  *)
(* contents.                                                                *)

\* The file names of the model, in the order sorted() gives their paths.
FileNames ==
    << <<"_", "a", ".py">>, <<"a", ".md">>, <<"a", ".py">>, <<"b", ".py">>,
       <<"c", ".py">> >>

NameSet == {FileNames[i] : i \in 1..Len(FileNames)}

ContentBytes == {"a", "b", ".py"}

\* The contents a new file may have.
Contents == {<<>>} \cup {<<x>> : x \in ContentBytes}

EmptyFolder == [n \in {} |-> <<>>]

\* folder_path.rglob("*.py"), sorted
RglobPy(folder_path) ==
    SelectSeq(FileNames, LAMBDA n : n \in DOMAIN folder_path /\ n[Len(n)] = ".py")

\* py_file.name.startswith((".", "_"))
IsHiddenName(name) == name[1] \in {".", "_"}

\* A hasher that leaves the file name out.
UpdateNameSkipped(hasher, py_file) == hasher

\* hasher.update(py_file.name.encode())
UpdateName(hasher, py_file) == hasher \o py_file

\* The loop over py_files; a file in unreadable raises in read_bytes, after
\* its name went into the hasher.
RECURSIVE HashFiles(_, _, _, _, _)
HashFiles(folder_path, py_files, i, unreadable, hasher) ==
    IF i > Len(py_files) THEN hasher
    ELSE LET py_file == py_files[i] IN
         IF IsHiddenName(py_file)
         THEN HashFiles(folder_path, py_files, i + 1, unreadable, hasher)
         ELSE IF py_file \in unreadable
         THEN HashFiles(folder_path, py_files, i + 1, unreadable,
                        UpdateName(hasher, py_file))
         ELSE HashFiles(folder_path, py_files, i + 1, unreadable,
                        UpdateName(hasher, py_file) \o folder_path[py_file])

\* _compute_grimorium_hash(folder_path), where the files of unreadable fail
\* to be read during this call.
ComputeGrimoriumHash(folder_path, unreadable) ==
    Md5(HashFiles(folder_path, RglobPy(folder_path), 1, unreadable, <<>>))

----------------------------------------------------------------------------
(* Collection metadata synchroniser: SpellSync.sync_grimoriums_metadata and *)
(* sync_grimoriums_metadata_async.  A description is a tuple of strings,    *)
(* the empty tuple being the empty text.                                    *)

EmptyText == <<>>

\* What generate_content returns for the prompt of a collection, which holds
\* the collection's name and its doc text.
Summary(grimorium_id, spell_docs) == <<"summary of", grimorium_id, spell_docs>>

\* The text _generate_grimorium_summary returns when generate_content raises.
Fallback(grimorium_name) ==
    <<"Grimorium", grimorium_name, "containing various magical tools.">>

\* The description given to a collection that has none.
Placeholder(grimorium_id) == <<"Collection of spells in", grimorium_id>>

\* The directories under MAGETOOLS_ROOT, in the order iterdir() lists them.
MetaIds == <<"arcane", "fire", "void", "_private">>

\* A directory: whether its name starts with "." or "_", its python files,
\* and the docstrings found in them.
Grimoire(h, fs, ds) == [hidden |-> h, files |-> fs, docs |-> ds]

\* folders = [d for d in iterdir() if d.is_dir() and not hidden ...]
Folders(grims) == SelectSeq(MetaIds, LAMBDA id : id \in DOMAIN grims /\ ~grims[id].hidden)

\* _extract_spell_docs(folder)
ExtractSpellDocs(grim) == grim.docs

\* What may happen to one collection during a run: master_index.get raises,
\* reading the summary file raises, generate_content raises, generate_content
\* returns an empty text, writing the summary file raises, or generate_content
\* and the write both raise.
MetaFaultKinds == {"get", "read", "summarize", "empty", "write", "summarize+write"}

\* The kinds in which generate_content raises, and those in which write_text
\* raises.
SummarizeFaults == {"summarize", "summarize+write"}

WriteFaults == {"write", "summarize+write"}

NoMetaFault == [id |-> "", kind |-> "none"]

MetaFaultIn(fault, grimorium_id) ==
    IF fault.id = grimorium_id THEN fault.kind ELSE "none"

\* A staleness test that never holds.
IsStaleNever(stored_hash, current_hash) == FALSE

\* A staleness test that holds whatever the hashes are.
IsStaleAlways(stored_hash, current_hash) == TRUE

\* is_stale = stored_hash and stored_hash != current_hash
IsStale(stored_hash, current_hash) ==
    stored_hash # EmptyText /\ stored_hash # current_hash

\* The steps of one collection up to the summarisation call.
PrepareFolder(grimorium_id, grims, cache, master, fault) ==
    LET current_hash == ComputeGrimoriumHash(grims[grimorium_id].files, {})
        stored_hash == IF grimorium_id \in DOMAIN master
                       THEN master[grimorium_id].hash ELSE EmptyText
        is_stale == IsStale(stored_hash, current_hash)
        reads == grimorium_id \in DOMAIN cache /\ ~is_stale
        description == IF reads THEN cache[grimorium_id] ELSE EmptyText
        exc == \/ MetaFaultIn(fault, grimorium_id) = "get"
               \/ reads /\ MetaFaultIn(fault, grimorium_id) = "read"
    IN [exc |-> exc,
        current_hash |-> current_hash,
        description |-> description,
        summarize |-> /\ ~exc
                      /\ (description = EmptyText \/ is_stale)
                      /\ ExtractSpellDocs(grims[grimorium_id]) # <<>>]

\* A summariser that returns the empty text when generate_content raises.
GenerateGrimoriumSummaryEmptyOnError(grimorium_name, spell_docs, fault) ==
    IF MetaFaultIn(fault, grimorium_name) \in SummarizeFaults \cup {"empty"} THEN EmptyText
    ELSE Summary(grimorium_name, spell_docs)

\* _generate_grimorium_summary(grimorium_name, spell_docs)
GenerateGrimoriumSummary(grimorium_name, spell_docs, fault) ==
    IF MetaFaultIn(fault, grimorium_name) \in SummarizeFaults THEN Fallback(grimorium_name)
    ELSE IF MetaFaultIn(fault, grimorium_name) = "empty" THEN EmptyText
    ELSE Summary(grimorium_name, spell_docs)

\* The exception of write_text left to propagate.
CatchWriteErrorReraise(w) == w

\* except Exception as e: logger.error(...)
CatchWriteError(w) == [w EXCEPT !.exc = FALSE]

\* try: summary_path.write_text(description) except ...: the summary files
\* afterwards, and whether an exception is left.
WriteSummary(cache, grimorium_id, description, fault) ==
    CatchWriteError(
        IF MetaFaultIn(fault, grimorium_id) \in WriteFaults
        THEN [cache |-> cache, exc |-> TRUE]
        ELSE [cache |-> [id \in DOMAIN cache \cup {grimorium_id} |->
                            IF id = grimorium_id THEN description ELSE cache[id]],
              exc |-> FALSE])

\* The entry of one collection in the batch.
MetaEntry(grimorium_id, grims, description, current_hash) ==
    [id |-> grimorium_id,
     document |-> IF description = EmptyText THEN Placeholder(grimorium_id)
                  ELSE description,
     spell_count |-> Len(RglobPy(grims[grimorium_id].files)),
     hash |-> current_hash]

\* master_index.upsert(ids, documents, metadatas)
UpsertMaster(master, batch) ==
    LET ids == {batch[i].id : i \in 1..Len(batch)}
        entryOf(id) == batch[CHOOSE i \in 1..Len(batch) : batch[i].id = id]
    IN [id \in DOMAIN master \cup ids |->
           IF id \in ids THEN entryOf(id) ELSE master[id]]

\* The locals of the synchronous loop.
MetaState(cache) == [cache |-> cache, batch |-> <<>>, calls |-> {}, exc |-> FALSE]

\* The body of the synchronous loop for one folder.
SyncFolder(grimorium_id, grims, master, fault, st) ==
    LET p == PrepareFolder(grimorium_id, grims, st.cache, master, fault)
        text == GenerateGrimoriumSummary(grimorium_id,
                                         ExtractSpellDocs(grims[grimorium_id]), fault)
        description == IF p.summarize THEN text ELSE p.description
        w == IF p.summarize THEN WriteSummary(st.cache, grimorium_id, text, fault)
             ELSE [cache |-> st.cache, exc |-> FALSE]
    IN IF p.exc THEN [st EXCEPT !.exc = TRUE]
       ELSE IF w.exc THEN [st EXCEPT !.calls = @ \cup {grimorium_id}, !.exc = TRUE]
       ELSE [cache |-> w.cache,
             batch |-> Append(st.batch,
                              MetaEntry(grimorium_id, grims, description, p.current_hash)),
             calls |-> IF p.summarize THEN st.calls \cup {grimorium_id} ELSE st.calls,
             exc |-> FALSE]

\* for folder in folders: ...  An exception ends the loop and the run.
RECURSIVE SyncFolders(_, _, _, _, _, _)
SyncFolders(folders, i, grims, master, fault, st) ==
    IF i > Len(folders) \/ st.exc THEN st
    ELSE SyncFolders(folders, i + 1, grims, master, fault,
                     SyncFolder(folders[i], grims, master, fault, st))

\* sync_grimoriums_metadata()
SyncGrimoriumsMetadata(grims, cache, master, fault) ==
    LET st == SyncFolders(Folders(grims), 1, grims, master, fault, MetaState(cache))
        upserts == IF ~st.exc /\ st.batch # <<>> THEN <<st.batch>> ELSE <<>>
    IN [cache |-> st.cache,
        master |-> IF upserts # <<>> THEN UpsertMaster(master, st.batch) ELSE master,
        calls |-> st.calls,
        upserts |-> upserts,
        exc |-> st.exc]

----------------------------------------------------------------------------
(* Search and access guard: SpellSync.find_matching_spells,                 *)
(* find_spells_within_grimorium and validate_spell_access.  Distances are   *)
(* counted in tenths.                                                       *)

\* self.distance_threshold = 0.4, in tenths
DistanceThreshold == 4

Match(id, dist) == [id |-> id, dist |-> dist]

\* A collection of the vector store: whether get_collection or a call on it
\* raises, and the matches a query returns, nearest first.
StoreColl(f, ms) == [fails |-> f, ranking |-> ms]

StoreColls ==
    { StoreColl(TRUE, <<>>),
      StoreColl(FALSE, <<>>),
      StoreColl(FALSE, <<Match("s1", 1), Match("s2", 4)>>),
      StoreColl(FALSE, <<Match("s1", 3), Match("s3", 5)>>),
      StoreColl(FALSE, <<Match("s2", 2), Match("s3", 4), Match("s4", 4)>>),
      StoreColl(FALSE, <<Match("s4", 5), Match("s1", 6)>>),
      StoreColl(FALSE, <<Match("s3", 1), Match("s3", 2)>>) }

\* vector_store.list_collections(), by name, in the order it lists them
CollNames == <<"arcane", "fire", "void">>

\* allowed_collections: None, or an iterable of names; failsAt = k > 0 is an
\* iterable that raises when its k-th item is fetched.
AllowList(n, items, k) == [isNone |-> n, items |-> items, failsAt |-> k]

NoAllowList == AllowList(TRUE, <<>>, 0)

AllowLists ==
    { NoAllowList,
      AllowList(FALSE, <<>>, 0),
      AllowList(FALSE, <<"arcane">>, 0),
      AllowList(FALSE, <<"fire", "void">>, 0),
      AllowList(FALSE, <<"other">>, 0),
      AllowList(FALSE, <<"other", "void">>, 0),
      AllowList(FALSE, <<"arcane">>, 1),
      AllowList(FALSE, <<"arcane", "fire">>, 2) }

\* The items an iteration over the allow-list yields before it ends or raises.
Yielded(allowed) ==
    IF allowed.failsAt = 0 THEN allowed.items
    ELSE SubSeq(allowed.items, 1, allowed.failsAt - 1)

\* coll_name in self.allowed_collections: "yes", "no", or "raise" when the
\* iteration raises before the name is met.
Contains(allowed, coll_name) ==
    IF \E i \in 1..Len(Yielded(allowed)) : Yielded(allowed)[i] = coll_name THEN "yes"
    ELSE IF allowed.failsAt > 0 THEN "raise"
    ELSE "no"

\* bool(self.allowed_collections)
TruthyList(allowed) ==
    ~allowed.isNone /\ (allowed.failsAt > 0 \/ Len(allowed.items) > 0)

\* not query or not isinstance(query, str) or not query.strip()
InvalidQuery(query) == query \in {"", " "}

\* collection.query(query_texts=[query], n_results=n)
Query(coll, n) ==
    SubSeq(coll.ranking, 1, IF Len(coll.ranking) < n THEN Len(coll.ranking) ELSE n)

\* The lowest distance of spell_id in all_matches.
LowestDist(all_matches, spell_id) ==
    LET ds == {all_matches[i].dist :
                  i \in {j \in 1..Len(all_matches) : all_matches[j].id = spell_id}}
    IN CHOOSE d \in ds : \A e \in ds : d <= e

\* unique_matches_map.items(): one match per id, in the order the ids were
\* first met, each with its lowest distance.
RECURSIVE UniqueMatches(_, _, _)
UniqueMatches(all_matches, i, acc) ==
    IF i > Len(all_matches) THEN acc
    ELSE LET spell_id == all_matches[i].id
         IN IF \E j \in 1..Len(acc) : acc[j].id = spell_id
            THEN UniqueMatches(all_matches, i + 1, acc)
            ELSE UniqueMatches(all_matches, i + 1,
                     Append(acc, Match(spell_id, LowestDist(all_matches, spell_id))))

\* sorted(items, key=distance): a stable sort, by insertion.
RECURSIVE SortedByDist(_)
SortedByDist(matches) ==
    IF matches = <<>> THEN <<>>
    ELSE LET rest == SortedByDist(SubSeq(matches, 1, Len(matches) - 1))
             last == matches[Len(matches)]
             k == Cardinality({j \in 1..Len(rest) : rest[j].dist <= last.dist})
         IN SubSeq(rest, 1, k) \o <<last>> \o SubSeq(rest, k + 1, Len(rest))

\* A threshold test that leaves the threshold itself out.
WithinThresholdStrict(dist, threshold) == dist < threshold

\* match[1] <= self.distance_threshold
WithinThreshold(dist, threshold) == dist <= threshold

\* A filter on the allow-list that skips no collection.
SkippedNever(allowed, coll_name) == "no"

\* if self.allowed_collections is not None:
\*     if coll_name not in self.allowed_collections: continue
Skipped(allowed, coll_name) ==
    IF allowed.isNone THEN "no"
    ELSE IF Contains(allowed, coll_name) = "yes" THEN "no"
    ELSE IF Contains(allowed, coll_name) = "no" THEN "yes"
    ELSE "raise"

\* The exception of a collection left to propagate out of the loop.
CatchSearchErrorReraise(st) == st

\* except Exception as e: logger.warning(...)
CatchSearchError(st) == [st EXCEPT !.exc = FALSE]

\* The loop over the collections: the matches gathered and the collections
\* a query was sent to.
RECURSIVE SearchCollections(_, _, _, _, _)
SearchCollections(store, allowed, n, i, st) ==
    IF i > Len(CollNames) \/ st.exc THEN st
    ELSE LET coll_name == CollNames[i]
             skip == Skipped(allowed, coll_name)
         IN IF skip = "raise" THEN [st EXCEPT !.exc = TRUE]
            ELSE IF skip = "yes"
            THEN SearchCollections(store, allowed, n, i + 1, st)
            ELSE SearchCollections(store, allowed, n, i + 1,
                     CatchSearchError(
                         IF store[coll_name].fails
                         THEN [st EXCEPT !.queried = @ \cup {coll_name}, !.exc = TRUE]
                         ELSE [st EXCEPT !.queried = @ \cup {coll_name},
                                         !.all_matches = @ \o Query(store[coll_name], n)]))

\* The result of a search call.
Found(result, queried, exc) == [result |-> result, queried |-> queried, exc |-> exc]

\* find_matching_spells(query); listFails: list_collections raises.
FindMatchingSpells(query, store, allowed, n, listFails) ==
    IF InvalidQuery(query) \/ listFails THEN Found(<<>>, {}, FALSE)
    ELSE LET st == SearchCollections(store, allowed, n, 1,
                       [all_matches |-> <<>>, queried |-> {}, exc |-> FALSE])
             sorted_matches == SortedByDist(UniqueMatches(st.all_matches, 1, <<>>))
             filtered_matches ==
                 SelectSeq(sorted_matches,
                           LAMBDA m : WithinThreshold(m.dist, DistanceThreshold))
             top == SubSeq(filtered_matches, 1,
                           IF Len(filtered_matches) < n THEN Len(filtered_matches) ELSE n)
         IN IF st.exc THEN Found(<<>>, st.queried, TRUE)
            ELSE Found([i \in 1..Len(top) |-> top[i].id], st.queried, FALSE)

\* find_spells_within_grimorium(grimorium_id, query)
FindSpellsWithinGrimorium(grimorium_id, store, allowed, n) ==
    LET member == IF TruthyList(allowed) THEN Contains(allowed, grimorium_id) ELSE "yes"
    IN IF member = "raise" THEN Found(<<>>, {}, TRUE)
       ELSE IF member = "no" THEN Found(<<>>, {}, FALSE)
       ELSE IF grimorium_id \notin DOMAIN store \/ store[grimorium_id].fails
       THEN Found(<<>>, {grimorium_id}, FALSE)
       ELSE LET query_results == Query(store[grimorium_id], n)
                matches == SelectSeq(query_results,
                               LAMBDA m : WithinThreshold(m.dist, DistanceThreshold))
            IN Found([i \in 1..Len(matches) |-> matches[i].id], {grimorium_id}, FALSE)

\* A point lookup that finds every name.
LookupAlways(store, coll_name, spell_name) == TRUE

\* get_collection(coll_name) and collection.get(ids=[spell_name]) succeed and
\* res["ids"] is not empty.
Lookup(store, coll_name, spell_name) ==
    /\ coll_name \in DOMAIN store
    /\ ~store[coll_name].fails
    /\ \E i \in 1..Len(store[coll_name].ranking) :
           store[coll_name].ranking[i].id = spell_name

\* validate_spell_access(spell_name)
ValidateSpellAccess(spell_name, store, allowed) ==
    IF allowed.isNone THEN Found(TRUE, {}, FALSE)
    ELSE LET names == Yielded(allowed)
             hits == {i \in 1..Len(names) : Lookup(store, names[i], spell_name)}
             tried == IF hits = {} THEN Len(names)
                      ELSE CHOOSE i \in hits : \A j \in hits : i <= j
         IN Found(hits # {}, {names[i] : i \in 1..tried}, FALSE)

----------------------------------------------------------------------------
(* The summarisation prompt: SpellSync._generate_grimorium_summary.  A text  *)
(* is a sequence of pieces; the marker END_TOOL_DATA is the two pieces       *)
(* "END_TOOL_" and "DATA", "x" stands for any other text.                    *)

EndMarker == <<"END_TOOL_", "DATA">>

\* The text that replaces the marker: "END_TOOL_DATA_ESC".
EscapedMarker == <<"END_TOOL_", "DATA", "_ESC">>

Separator == <<"\n---\n">>

\* str.replace(old, new): every occurrence of old, from the left, gives new.
RECURSIVE Replace(_, _, _)
Replace(text, old, new) ==
    IF Len(text) < Len(old) THEN text
    ELSE IF SubSeq(text, 1, Len(old)) = old
         THEN new \o Replace(SubSeq(text, Len(old) + 1, Len(text)), old, new)
         ELSE <<Head(text)>> \o Replace(Tail(text), old, new)

\* sep.join(docs)
RECURSIVE StrJoin(_, _)
StrJoin(sep, docs) ==
    IF docs = <<>> THEN <<>>
    ELSE IF Len(docs) = 1 THEN docs[1]
    ELSE docs[1] \o sep \o StrJoin(sep, Tail(docs))

\* text[:limit]
Truncate(text, limit) == SubSeq(text, 1, IF Len(text) < limit THEN Len(text) ELSE limit)

\* old in text
RECURSIVE Occurs(_, _)
Occurs(old, text) ==
    /\ Len(text) >= Len(old)
    /\ \/ SubSeq(text, 1, Len(old)) = old
       \/ Occurs(old, Tail(text))

\* escaped_docs and tool_data: the docstrings with the marker replaced, joined
\* and cut at the limit.
ToolData(spell_docs, limit) ==
    Truncate(StrJoin(Separator, [i \in 1..Len(spell_docs) |->
                                 Replace(spell_docs[i], EndMarker, EscapedMarker)]),
             limit)

----------------------------------------------------------------------------
(* Grimorium: initialisation and the operations of the toolset *)

\* The members of a set in some order.
RECURSIVE SeqOf(_)
SeqOf(S) ==
    IF S = {} THEN <<>>
    ELSE LET x == CHOOSE y \in S : TRUE IN <<x>> \o SeqOf(S \ {x})

\* The collections sync_spells has filled, as get_collection, get and query
\* see them: every stored id matches, at distance 0.
IndexStore(idx) ==
    [c \in DOMAIN idx |->
        StoreColl(FALSE, [i \in 1..Cardinality(DOMAIN idx[c]) |->
                             Match(SeqOf(DOMAIN idx[c])[i], 0)])]

\* What a call of an operation of the toolset did and gave.
Outcome(error, status, message, result, guard, invoked, queried) ==
    [raised |-> error, status |-> status, message |-> message, result |-> result,
     guard |-> guard, invoked |-> invoked, queried |-> queried]

NotInitializedError ==
    Outcome("RuntimeError", "none", "Grimorium not initialized", <<>>, "none", FALSE, {})

\* A check that lets every call through.
CheckInitializedNever(initialized) == TRUE

\* _check_initialized(): whether the call goes on
CheckInitialized(initialized) == initialized

\* A guard test that denies nothing.
DeniedNever(access) == FALSE

\* if not self.spell_sync.validate_spell_access(spell_name):
Denied(access) == ~access.result

\* What the guard answered.
GuardOf(access) == IF access.result THEN "granted" ELSE "denied"

\* The value a spell returns.
ReturnValue(spell_name) == <<"result of", spell_name>>

\* The ways a call spell_func(**call_args) may end: it returns, raises
\* TypeError (the arguments do not fit), or raises another Exception.
SpellEnds == {"returns", "TypeError", "Exception"}

\* The exception of the spell left to propagate.
CatchSpellErrorReraise(ends, spell_name, access) ==
    Outcome(IF ends = "returns" THEN "none" ELSE ends, "none", "none",
            <<>>, GuardOf(access), TRUE, access.queried)

\* try: ... return {"status": "success", "result": result}
\* except TypeError: ...  except Exception: ...
CatchSpellError(ends, spell_name, access) ==
    IF ends = "returns"
    THEN Outcome("none", "success", "none", ReturnValue(spell_name),
                 GuardOf(access), TRUE, access.queried)
    ELSE IF ends = "TypeError"
    THEN Outcome("none", "error", "Failed to call spell. Please check arguments.",
                 <<>>, GuardOf(access), TRUE, access.queried)
    ELSE Outcome("none", "error", "Execution failed", <<>>,
                 GuardOf(access), TRUE, access.queried)

\* execute_spell(spell_name, arguments, tool_context); ends: how the spell
\* ends when it is called with these arguments.
ExecuteSpell(spell_name, ends, initialized, reg, idx, allowed) ==
    IF ~CheckInitialized(initialized) THEN NotInitializedError
    ELSE LET access == ValidateSpellAccess(spell_name, IndexStore(idx), allowed)
         IN IF Denied(access)
            THEN Outcome("none", "error", "Permission denied", <<>>,
                         "denied", FALSE, access.queried)
            ELSE IF spell_name \notin DOMAIN reg
            THEN Outcome("none", "error", "not found", <<>>,
                         GuardOf(access), FALSE, access.queried)
            ELSE CatchSpellError(ends, spell_name, access)

\* discover_spells(grimorium_id, query)
DiscoverSpells(grimorium_id, initialized, reg, idx, allowed, n) ==
    IF ~CheckInitialized(initialized) THEN NotInitializedError
    ELSE LET found == FindSpellsWithinGrimorium(grimorium_id, IndexStore(idx), allowed, n)
             detailed_spells ==
                 SelectSeq(found.result, LAMBDA name : name \in DOMAIN reg)
         IN IF found.exc
            THEN Outcome("Exception", "none", "none", <<>>, "none", FALSE, found.queried)
            ELSE IF found.result = <<>>
            THEN Outcome("none", "not_found", "No spells found", <<>>,
                         "none", FALSE, found.queried)
            ELSE Outcome("none", "success", "none", detailed_spells,
                         "none", FALSE, found.queried)

\* The name of the master index.
GrimoriumsIndexName == "GRIMORIUMS_INDEX_NAME"

\* discover_grimoriums(query); hits: the ids the query of the master index
\* returns within the threshold, nearest first.
DiscoverGrimoriums(query, initialized, hits) ==
    IF ~CheckInitialized(initialized) THEN NotInitializedError
    ELSE IF query = ""
    THEN Outcome("none", "not_found", "No relevant Grimoriums found.", <<>>,
                 "none", FALSE, {})
    ELSE IF hits = <<>>
    THEN Outcome("none", "not_found", "No relevant Grimoriums found.", <<>>,
                 "none", FALSE, {GrimoriumsIndexName})
    ELSE Outcome("none", "success", "none", hits, "none", FALSE, {GrimoriumsIndexName})

\* The methods and properties the class Grimorium defines.
Methods ==
    {"__init__", "_sync_initialize", "registry", "initialize", "_check_initialized",
     "usage_guide", "discover_grimoriums", "discover_spells", "execute_spell",
     "get_tools", "from_config", "get_auth_config", "close"}

\* grim.<name>(): the attribute lookup of a name the class does not define
GetAttr(name) ==
    IF name \in Methods THEN Outcome("none", "none", "none", <<>>, "none", FALSE, {})
    ELSE Outcome("AttributeError", "none", "none", <<>>, "none", FALSE, {})

\* A test of the flag that never finds the toolset initialised.
AlreadyInitializedNever(initialized) == FALSE

\* if self._initialized: return
AlreadyInitialized(initialized) == initialized

\* What an initialisation did: the flag, the registry and the indices
\* afterwards, and the discovery passes and synchronisations it ran.
Initialized(flag, d, s, m, error, discoveries, syncs, metaSyncs) ==
    [initialized |-> flag, pass |-> d, sync |-> s, meta |-> m, raised |-> error,
     discoveries |-> discoveries, syncs |-> syncs, metaSyncs |-> metaSyncs]

\* initialize() when variant = "async", _sync_initialize() when "sync".  The
\* awaited sync_grimoriums_metadata_async is taken as one step, by what the
\* synchronous loop yields on the same tree.
Initialize(variant, root, initialized, strict_mode, reg, idx, grims, cache, master, fault, metaFault) ==
    LET d == DiscoverAndLoadSpells(root, reg, strict_mode)
        s == SyncSpells(d.registry, idx, fault)
        m == SyncGrimoriumsMetadata(grims, cache, master, metaFault)
        same == [cache |-> cache, master |-> master]
    IN IF AlreadyInitialized(initialized)
       THEN Initialized(initialized, PassState(reg), SyncState(idx), same, "none", 0, 0, 0)
       ELSE IF d.exc
       THEN Initialized(FALSE, d, SyncState(idx), same, "Exception", 1, 0, 0)
       ELSE IF variant = "sync"
       THEN Initialized(TRUE, d, s, same, "none", 1, 1, 0)
       ELSE Initialized(~m.exc, d, s, [cache |-> m.cache, master |-> m.master],
                        IF m.exc THEN "Exception" ELSE "none", 1, 1, 1)

\* A parameter of a spell's signature: its name and whether it is annotated
\* with ToolContext.
Param(name, annotated) == [name |-> name, annotated |-> annotated]

\* if (param.annotation == ToolContext or name == "tool_context" and name
\* not in call_args): Python's "and" binds tighter than its "or".
Injects(param, call_args) ==
    param.annotated \/ (param.name = "tool_context" /\ param.name \notin DOMAIN call_args)

\* call_args[name] = tool_context
SetItem(call_args, name, value) ==
    [n \in DOMAIN call_args \cup {name} |-> IF n = name THEN value ELSE call_args[n]]

\* for name, param in sig.parameters.items(): ...
RECURSIVE InjectLoop(_, _, _, _)
InjectLoop(sig, i, call_args, tool_context) ==
    IF i > Len(sig) THEN call_args
    ELSE InjectLoop(sig, i + 1,
                    IF Injects(sig[i], call_args)
                    THEN SetItem(call_args, sig[i].name, tool_context)
                    ELSE call_args,
                    tool_context)

\* The preparation of the call arguments in execute_spell: the loop writes
\* to a copy of the caller's mapping.  The result carries the caller's
\* mapping as the call leaves it and the arguments the spell is called with.
PrepareCallArgs(sig, arguments, tool_context) ==
    [arguments |-> arguments,
     call_args |-> InjectLoop(sig, 1, arguments, tool_context)]

----------------------------------------------------------------------------
(* Specification of discovery: passes over changing trees, on one registry. *)

MaxPasses == 2

NoSync == [called |-> FALSE, registry |-> EmptyRegistry, fault |-> NoFault,
           before |-> EmptyIndex, upserts |-> {}, skipped |-> 0, raised |-> FALSE]

SyncIdle ==
    /\ index = EmptyIndex
    /\ syncCalls = 0
    /\ lastSync = NoSync
    /\ prevSync = NoSync

DiscIdle ==
    /\ registry = EmptyRegistry
    /\ regLog = {}
    /\ loaded = {}
    /\ raised = FALSE
    /\ lastRoot = Root(FALSE, <<>>)
    /\ lastStrict = TRUE
    /\ passes = 0

PolIdle ==
    /\ polName = "f"
    /\ polManifest = None
    /\ polResult = TRUE
    /\ polCalled = FALSE

NoHash ==
    [called |-> FALSE, digest |-> Md5(<<>>), unreadable |-> {}, edits |-> <<>>, seen |-> 0]

HashIdle ==
    /\ folder = EmptyFolder
    /\ hashCalls = 0
    /\ lastHash = NoHash
    /\ prevHash = NoHash
    /\ edits = <<>>

EmptyGrimoriums == [id \in {} |-> Grimoire(TRUE, EmptyFolder, <<>>)]

NoMeta ==
    [status |-> "none", variant |-> "sync", concurrency |-> 1, fault |-> NoMetaFault,
     calls |-> {}, upserts |-> <<>>, sources |-> EmptyGrimoriums,
     cacheAtStart |-> [id \in {} |-> EmptyText], masterAtStart |-> EmptyCollection]

MetaIdle ==
    /\ grimoriums = EmptyGrimoriums
    /\ cacheFile = [id \in {} |-> EmptyText]
    /\ masterIndex = EmptyCollection
    /\ pc = [id \in {} |-> "done"]
    /\ sem = 0
    /\ taskLocal = [id \in {} |-> EmptyText]
    /\ results = [id \in {} |-> EmptyText]
    /\ lastMeta = NoMeta
    /\ prevMeta = [status |-> "none", sources |-> EmptyGrimoriums, fault |-> NoMetaFault]
    /\ metaRuns = 0

NoSearch ==
    [op |-> "none", query |-> "", target |-> "", listFails |-> FALSE,
     result |-> <<>>, queried |-> {}, raised |-> FALSE]

SearchIdle ==
    /\ vector_store = [c \in {} |-> StoreColl(FALSE, <<>>)]
    /\ allowed_collections = NoAllowList
    /\ top_spells = 5
    /\ lastSearch = NoSearch

\* The call last made on the toolset: its arguments, whether the toolset was
\* initialised when it was made, what it gave, the discovery passes and the
\* synchronisations it ran, and the registry and indices it found.
NoCall ==
    [op |-> "none", arg |-> <<>>, ends |-> "none", wasInit |-> FALSE,
     raised |-> "none", status |-> "none", message |-> "none", result |-> <<>>,
     guard |-> "none", invoked |-> FALSE, queried |-> {},
     discoveries |-> 0, syncs |-> 0, metaSyncs |-> 0,
     registry |-> EmptyRegistry, index |-> EmptyIndex, master |-> EmptyCollection]

GrimIdle ==
    /\ _initialized = FALSE
    /\ _strict_mode = TRUE
    /\ lastCall = NoCall
    /\ awaiting = <<>>

NoPrompt == [built |-> FALSE, spell_docs |-> <<>>, tool_data |-> <<>>]

NoInject == [called |-> FALSE]

UnitIdle ==
    /\ lastPrompt = NoPrompt
    /\ lastInject = NoInject

Init == PolIdle /\ DiscIdle /\ SyncIdle /\ HashIdle /\ MetaIdle /\ SearchIdle /\ GrimIdle /\ UnitIdle

\* The trees a pass may read: every pass but the last of a run reads one of
\* SeedRoots, the last one any of Roots.
RootsOfPass ==
    IF passes >= MaxPasses THEN {}
    ELSE IF passes + 1 < MaxPasses THEN SeedRoots
    ELSE Roots \cup SeedRoots

\* One call of discover_and_load_spells on the registry.
Discover(root, strict_mode) ==
    /\ passes < MaxPasses
    /\ \E r \in {DiscoverAndLoadSpells(root, registry, strict_mode)} :
           /\ registry' = r.registry
           /\ regLog' = r.regLog
           /\ loaded' = r.loaded
           /\ raised' = r.exc
    /\ lastRoot' = root
    /\ lastStrict' = strict_mode
    /\ passes' = passes + 1
    /\ UNCHANGED <<polVars, syncVars, hashVars, metaVars, searchVars, grimVars, unitVars>>

Next == \E root \in RootsOfPass, strict_mode \in BOOLEAN : Discover(root, strict_mode)

Spec == Init /\ [][Next]_vars

----------------------------------------------------------------------------
(* What the claims say about a pass, read off the tree of the last pass. *)

\* The collection directories of the last pass: the non-hidden directories.
Collections ==
    {lastRoot.entries[i] : i \in {j \in 1..Len(lastRoot.entries) :
        lastRoot.entries[j].isDir /\ ~lastRoot.entries[j].hidden}}

\* manifest.json is there and parses to a JSON object.
HasManifest(e) == e.manifestFile.state = "object"

\* The manifest sets enabled to false.
SetsDisabled(e) ==
    /\ HasManifest(e)
    /\ "enabled" \in e.manifestFile.json.keys
    /\ e.manifestFile.json.enabled = FALSE

\* The admission policy as the specification states it, on the manifest file.
Admits(e, n) ==
    \/ ~HasManifest(e)
    \/ /\ ~SetsDisabled(e)
       /\ \/ "whitelist" \notin e.manifestFile.json.keys
          \/ n \in e.manifestFile.json.whitelist
       /\ ~("blacklist" \in e.manifestFile.json.keys /\ n \in e.manifestFile.json.blacklist)

\* The eligible source files of a collection (positions in its file list).
Eligible(e) == {i \in 1..Len(e.files) : ~e.files[i].hidden}

MemberKinds(file) == {file.members[j].kind : j \in 1..Len(file.members)}

\* The eligible files that execute, and those that also scan to the end.
Executes(e) == {i \in Eligible(e) : e.files[i].status = "ok"}

LoadsCleanly(e) == {i \in Executes(e) : "raiser" \notin MemberKinds(e.files[i])}

\* The spell-marked members of a file, and their names.
MarkedMembers(file) ==
    {file.members[j] : j \in {k \in 1..Len(file.members) : file.members[k].kind = "spell"}}

Marked(file) == {m.name : m \in MarkedMembers(file)}

\* The registrations a pass over e owes: one per admitted spell-marked member
\* of each file that loads cleanly.
Owed(e) ==
    UNION { {<<Key(e.name, m.name), SpellObj(e.name, Stems[i], m)>> :
                 m \in {x \in MarkedMembers(e.files[i]) : Admits(e, x.name)}} :
            i \in LoadsCleanly(e) }

\* The keys of collection c among the keys ks.
KeysOf(c, ks) == {k \in ks : Len(k) = Len(c) + 1 /\ SubSeq(k, 1, Len(c)) = c}

Registered == {r[1] : r \in regLog}

\* The collections the last pass did not skip.
Scanned ==
    {e \in Collections :
        ~StrictGate(lastStrict, LoadManifest(e)) /\ ~DisabledGate(LoadManifest(e))}

----------------------------------------------------------------------------
(* Claims about discovery *)

\* C2: with strict_mode=true a collection that has an eligible source file and
\* no manifest gets no spell registered by the pass; with strict_mode=false
\* every spell-marked member of its files that load is registered.
C2_StrictDefaultDeny ==
    passes > 0 =>
        \A e \in Collections :
            (~HasManifest(e) /\ Eligible(e) # {}) =>
                IF lastStrict
                THEN KeysOf(e.name, Registered) = {}
                ELSE \A i \in LoadsCleanly(e) : \A m \in MarkedMembers(e.files[i]) :
                        /\ <<Key(e.name, m.name), SpellObj(e.name, Stems[i], m)>> \in regLog
                        /\ Key(e.name, m.name) \in DOMAIN registry

\* A strict pass has registered nothing for the manifest-less arcane, whose
\* spells an earlier lenient pass had registered.
C2_Witness ==
    /\ passes = 2
    /\ lastStrict
    /\ \E e \in Collections :
        /\ e.name = Arcane
        /\ ~HasManifest(e)
        /\ \E i \in LoadsCleanly(e) : Marked(e.files[i]) # {}
        /\ KeysOf(Arcane, Registered) = {}
    /\ KeysOf(Arcane, DOMAIN registry) # {}

\* C3: no source file of a skipped collection (skipped by the strict gate for
\* want of a manifest, or by enabled=false) is loaded or executed by the pass.
C3_SkippedNeverLoaded ==
    passes > 0 =>
        \A e \in Collections :
            ((lastStrict /\ ~HasManifest(e)) \/ SetsDisabled(e)) =>
                \A l \in loaded : l[1] # e.name

\* A pass skipped a disabled collection holding a loadable file while it loaded
\* a file of another collection.
C3_Witness ==
    /\ passes > 0
    /\ \E e \in Collections :
        /\ SetsDisabled(e)
        /\ Executes(e) # {}
        /\ \A l \in loaded : l[1] # e.name
    /\ loaded # {}

\* C4: with strict_mode=true every collection whose manifest.json parses to a
\* JSON object, whatever its keys, and does not set enabled=false is scanned
\* and has its admitted spells registered.
C4_StrictScansEveryManifest ==
    (passes > 0 /\ lastStrict) =>
        \A e \in Collections :
            (HasManifest(e) /\ ~SetsDisabled(e)) => Owed(e) \subseteq regLog

\* C5: a collection whose manifest has enabled=false gets no spell registered
\* by the pass, under either strict_mode and whatever its lists say.
C5_DisabledContributesNothing ==
    passes > 0 =>
        \A e \in Collections : SetsDisabled(e) => KeysOf(e.name, Registered) = {}

\* A disabled collection that whitelists a spell it defines got nothing.
C5_Witness ==
    /\ passes > 0
    /\ \E e \in Collections :
        /\ SetsDisabled(e)
        /\ "whitelist" \in e.manifestFile.json.keys
        /\ \E i \in LoadsCleanly(e) :
              Marked(e.files[i]) \cap e.manifestFile.json.whitelist # {}
        /\ KeysOf(e.name, Registered) = {}

\* C6: after a pass over an admitted collection C the registry entries of C
\* are exactly the keys C.name of the admitted spell-marked members of its
\* loaded files.  (A file whose scan raised part-way counts either way.)
C6_RegistryExactlyAdmitted ==
    passes > 0 =>
        \A e \in Scanned :
            /\ {r[1] : r \in Owed(e)} \subseteq KeysOf(e.name, DOMAIN registry)
            /\ KeysOf(e.name, DOMAIN registry) \subseteq
                   {Key(e.name, n) : n \in {m \in Names : Admits(e, m) /\
                        \E i \in Executes(e) : m \in Marked(e.files[i])}}

\* C7: every registration of a pass is still in the registry at its end: no
\* registration of the pass overwrote another.
C7_NoOverwrite ==
    passes > 0 => \A r \in regLog : registry[r[1]] = r[2]

\* C8: after a second pass on the same registry the registry holds exactly
\* the spells that pass admitted.
C8_RebuiltFromScratch ==
    passes >= 2 => DOMAIN registry = Registered

\* C9: a file that fails the syntax pre-check, or raises while loaded or
\* scanned, is skipped alone: the pass does not raise, and the admitted spells
\* of every file that loads, in every collection scanned, are registered.
C9_FailureIsolation ==
    passes > 0 =>
        /\ ~raised
        /\ \A e \in Scanned : Owed(e) \subseteq regLog

\* In arcane a file that fails the syntax pre-check came before a clean one,
\* whose spell was registered; in the other collection a file raised on import
\* and the spell of its sibling was registered.
C9_Witness ==
    /\ passes > 0
    /\ ~raised
    /\ \E e \in Scanned :
        /\ e.name = Arcane
        /\ Len(e.files) = 2
        /\ e.files[1].status = "syntax"
        /\ 2 \in LoadsCleanly(e)
        /\ Owed(e) # {}
        /\ Owed(e) \subseteq regLog
    /\ \E e \in Scanned :
        /\ e.name = FireV2
        /\ \E i \in Eligible(e) : e.files[i].status = "raise"
        /\ Owed(e) # {}
        /\ Owed(e) \subseteq regLog

----------------------------------------------------------------------------
(* Specification of synchronisation: discovery passes and sync_spells calls *)
(* on one registry and one vector store.                                    *)

MaxSyncs == 2

\* The trees of the passes between sync calls: docs change, a spell moves
\* to another bucket through its collection attribute, a collection appears.
SyncRoots ==
    { Root(TRUE, <<DirEntry(Arcane, FALSE, TRUE, ManifestFile("missing", None),
                            <<PyFile(FALSE, "ok", <<MemberWith("f", "spell", "d1", <<>>),
                                                    MemberWith("g", "spell", "", <<>>)>>)>>)>>),
      Root(TRUE, <<DirEntry(Arcane, FALSE, TRUE, ManifestFile("missing", None),
                            <<PyFile(FALSE, "ok", <<MemberWith("f", "spell", "d2", <<>>)>>)>>),
                   DirEntry(FireV2, FALSE, TRUE, ManifestFile("missing", None),
                            <<PyFile(FALSE, "ok", <<MemberWith("f", "spell", "d1", <<>>)>>)>>)>>),
      Root(TRUE, <<DirEntry(Arcane, FALSE, TRUE, ManifestFile("missing", None),
                            <<PyFile(FALSE, "ok", <<MemberWith("f", "spell", "d1", <<>>),
                                                    MemberWith("g", "spell", "d1", <<"shared">>)>>)>>)>>) }

BucketNames == {"arcane", "fire", "shared"}

Faults == {NoFault} \cup {[bucket |-> b, kind |-> k] : b \in BucketNames, k \in FaultKinds}

\* One call of sync_spells, in which at most one bucket meets a failure; the
\* call is recorded with the index it found.
Sync(fault) ==
    /\ syncCalls < MaxSyncs
    /\ \E r \in {SyncSpells(registry, index, fault)} :
           /\ index' = r.index
           /\ lastSync' = [called |-> TRUE, registry |-> registry, fault |-> fault,
                           before |-> index, upserts |-> r.upserts,
                           skipped |-> r.skipped, raised |-> r.exc]
    /\ prevSync' = lastSync
    /\ syncCalls' = syncCalls + 1
    /\ UNCHANGED <<polVars, discVars, hashVars, metaVars, searchVars, grimVars, unitVars>>

\* A new process on the same persistent vector store: SpellSync() starts
\* from an empty registry, the indices are as the last process left them.
Restart ==
    /\ passes < MaxPasses
    /\ registry # EmptyRegistry
    /\ registry' = EmptyRegistry
    /\ regLog' = {}
    /\ loaded' = {}
    /\ raised' = FALSE
    /\ UNCHANGED <<lastRoot, lastStrict, passes>>
    /\ UNCHANGED <<polVars, syncVars, hashVars, metaVars, searchVars, grimVars, unitVars>>

SyncNext ==
    \/ \E root \in SyncRoots : Discover(root, FALSE)
    \/ \E fault \in Faults : Sync(fault)
    \/ Restart

SpecSync == Init /\ [][SyncNext]_vars

\* Whether a call met no failure of the given kinds.
Without(call, kinds) == call.fault.kind \notin kinds

Changed(call, book_name) ==
    {k \in BucketKeys(call.registry, book_name) :
        ~(/\ book_name \in DOMAIN call.before
          /\ k \in DOMAIN call.before[book_name]
          /\ call.before[book_name][k].hash = Md5(call.registry[k].doc))}

UpsertsOf(call, book_name) == {u \in call.upserts : u.bucket = book_name}

\* What a call did on a bucket: one upsert of exactly the changed spells, none
\* when there is no changed spell.
UpsertedExactlyChanged(call, book_name) ==
    UpsertsOf(call, book_name) =
        IF Changed(call, book_name) = {} THEN {}
        ELSE {[bucket |-> book_name, ids |-> Changed(call, book_name)]}

\* The entries of the unchanged spells of a bucket are what they were.
UnchangedKept(call, book_name) ==
    \A k \in BucketKeys(call.registry, book_name) \ Changed(call, book_name) :
        /\ book_name \in DOMAIN index
        /\ k \in DOMAIN index[book_name]
        /\ index[book_name][k] = call.before[book_name][k]

C25_BucketFailureIsolated ==
    lastSync.called =>
        /\ ~lastSync.raised
        /\ \A b \in Buckets(lastSync.registry) \ {lastSync.fault.bucket} :
               Changed(lastSync, b) # {} =>
                   /\ [bucket |-> b, ids |-> Changed(lastSync, b)] \in lastSync.upserts
                   /\ \A k \in Changed(lastSync, b) :
                          index[b][k].hash = Md5(lastSync.registry[k].doc)

\* A call in which one bucket with changed spells failed to open or to
\* upsert, and another bucket's changed spells were upserted.
C25_Witness ==
    /\ lastSync.called /\ ~lastSync.raised
    /\ lastSync.fault.kind \in {"open", "upsert"}
    /\ lastSync.fault.bucket \in Buckets(lastSync.registry)
    /\ Changed(lastSync, lastSync.fault.bucket) # {}
    /\ \A k \in Changed(lastSync, lastSync.fault.bucket) :
           ~(/\ lastSync.fault.bucket \in DOMAIN index
             /\ k \in DOMAIN index[lastSync.fault.bucket]
             /\ index[lastSync.fault.bucket][k].hash = Md5(lastSync.registry[k].doc))
    /\ \E b \in Buckets(lastSync.registry) \ {lastSync.fault.bucket} :
           /\ Changed(lastSync, b) # {}
           /\ [bucket |-> b, ids |-> Changed(lastSync, b)] \in lastSync.upserts

\* The ids a collection of the index holds.
IndexedIds(idx, book_name) == IF book_name \in DOMAIN idx THEN DOMAIN idx[book_name] ELSE {}

\* A sync_spells call that met no failure and ran to its end.
CleanSync == lastSync.called /\ Without(lastSync, FaultKinds) /\ ~lastSync.raised

\* C31: after discovery followed by a sync_spells call against the persistent
\* index, whatever runs came before, the ids each collection of the index
\* holds are the registry entries bucketed to that collection: no entry
\* remains for a spell that is no longer in the registry.
C31_IndexHoldsExactlyRegistry ==
    CleanSync =>
        \A book_name \in DOMAIN index \cup Buckets(lastSync.registry) :
            IndexedIds(index, book_name) = BucketKeys(lastSync.registry, book_name)

\* The directory a discovered spell was loaded from: its module name without
\* the prefix and the file stem.
DirOf(spell_func) == SubSeq(spell_func.module, 3, Len(spell_func.module) - 1)

\* C36: every spell discovery registered from a collection directory C
\* without the collection attribute is upserted into the index named C,
\* whatever the directory is called; a spell carrying the attribute is routed
\* to the collection it names.
C36_RoutedToOwnDirectory ==
    CleanSync =>
        \A k \in DOMAIN lastSync.registry :
            LET spell_func == lastSync.registry[k]
            IN  IF spell_func.override = <<>>
                THEN \E book_name \in DOMAIN index :
                        /\ <<book_name>> = DirOf(spell_func)
                        /\ k \in IndexedIds(index, book_name)
                ELSE k \in IndexedIds(index, spell_func.override[1])

----------------------------------------------------------------------------
(* Specification of the content hasher: a collection folder is hashed,      *)
(* edited, and hashed again.                                                *)

MaxHashes == 2

MaxEdits == 1

File(n, c) == [x \in {n} |-> c]

Files2(n1, c1, n2, c2) == [x \in {n1, n2} |-> IF x = n1 THEN c1 ELSE c2]

\* The folders the first hash may find.
SeedFolders ==
    { EmptyFolder,
      File(FileNames[3], <<"a">>),
      File(FileNames[3], <<"b", ".py">>),
      Files2(FileNames[3], <<>>, FileNames[4], <<>>),
      Files2(FileNames[3], <<"a", "b">>, FileNames[4], <<"a">>),
      Files2(FileNames[1], <<"a">>, FileNames[3], <<"b">>),
      [n \in NameSet |-> <<"a">>] }

\* A file the hasher takes into account.
EligibleName(n) == n[Len(n)] = ".py" /\ ~IsHiddenName(n)

HashInit ==
    /\ PolIdle /\ DiscIdle /\ SyncIdle /\ MetaIdle /\ SearchIdle /\ GrimIdle /\ UnitIdle
    /\ folder \in SeedFolders
    /\ hashCalls = 0
    /\ lastHash = NoHash
    /\ prevHash = NoHash
    /\ edits = <<>>

Edit(kind, name) == [kind |-> kind, eligible |-> EligibleName(name)]

CanEdit == hashCalls < MaxHashes /\ Len(edits) < MaxEdits

\* A new file appears in the folder.
AddFile(name, content) ==
    /\ CanEdit
    /\ name \notin DOMAIN folder
    /\ folder' = [n \in DOMAIN folder \cup {name} |->
                     IF n = name THEN content ELSE folder[n]]
    /\ edits' = Append(edits, Edit("add", name))
    /\ UNCHANGED <<hashCalls, lastHash, prevHash>>
    /\ UNCHANGED <<polVars, discVars, syncVars, metaVars, searchVars, grimVars, unitVars>>

\* A file is removed.
RemoveFile(name) ==
    /\ CanEdit
    /\ name \in DOMAIN folder
    /\ folder' = [n \in DOMAIN folder \ {name} |-> folder[n]]
    /\ edits' = Append(edits, Edit("remove", name))
    /\ UNCHANGED <<hashCalls, lastHash, prevHash>>
    /\ UNCHANGED <<polVars, discVars, syncVars, metaVars, searchVars, grimVars, unitVars>>

\* A file gets a name no file of the folder has.
RenameFile(old, new) ==
    /\ CanEdit
    /\ old \in DOMAIN folder
    /\ new \notin DOMAIN folder
    /\ folder' = [n \in (DOMAIN folder \ {old}) \cup {new} |->
                     IF n = new THEN folder[old] ELSE folder[n]]
    /\ edits' = Append(edits, Edit("rename", old))
    /\ UNCHANGED <<hashCalls, lastHash, prevHash>>
    /\ UNCHANGED <<polVars, discVars, syncVars, metaVars, searchVars, grimVars, unitVars>>

\* One byte of a file takes another value.
MutateByte(name, i, b) ==
    /\ CanEdit
    /\ name \in DOMAIN folder
    /\ i \in 1..Len(folder[name])
    /\ b # folder[name][i]
    /\ folder' = [folder EXCEPT ![name][i] = b]
    /\ edits' = Append(edits, Edit("mutate", name))
    /\ UNCHANGED <<hashCalls, lastHash, prevHash>>
    /\ UNCHANGED <<polVars, discVars, syncVars, metaVars, searchVars, grimVars, unitVars>>

\* The sets of files that may fail to be read during one call.
Unreadables == {{}} \cup {{n} : n \in {m \in DOMAIN folder : EligibleName(m)}}

\* One call of _compute_grimorium_hash on the folder.
HashFolder(unreadable) ==
    /\ hashCalls < MaxHashes
    /\ lastHash' = [called |-> TRUE,
                    digest |-> ComputeGrimoriumHash(folder, unreadable),
                    unreadable |-> unreadable,
                    edits |-> SubSeq(edits, lastHash.seen + 1, Len(edits)),
                    seen |-> Len(edits)]
    /\ prevHash' = lastHash
    /\ hashCalls' = hashCalls + 1
    /\ UNCHANGED <<folder, edits>>
    /\ UNCHANGED <<polVars, discVars, syncVars, metaVars, searchVars, grimVars, unitVars>>

HashNext ==
    \/ \E name \in NameSet, content \in Contents : AddFile(name, content)
    \/ \E name \in NameSet : RemoveFile(name)
    \/ \E old, new \in NameSet : RenameFile(old, new)
    \/ \E name \in NameSet, i \in 1..2, b \in ContentBytes : MutateByte(name, i, b)
    \/ \E unreadable \in Unreadables : HashFolder(unreadable)

SpecHash == HashInit /\ [][HashNext]_vars

\* Two calls in a row, the second after the edits it recorded.
TwoHashes == lastHash.called /\ prevHash.called

\* The second call came after one change to a file the hasher takes into
\* account: a byte mutated, the file added, removed or renamed.
OneEligibleEdit == Len(lastHash.edits) = 1 /\ lastHash.edits[1].eligible

----------------------------------------------------------------------------
(* Specification of the metadata synchroniser: runs of either variant on    *)
(* one root, one after the other, the sources being edited between runs.    *)
(* The tasks of the concurrent variant interleave.                          *)

MaxMetaRuns == 2

\* The concurrency limits of the model.
MaxConcurrency == 2

DocFile(c) == File(FileNames[3], c)

\* The trees the first run may find.
SeedGrimoriums ==
    { [id \in {"arcane", "fire", "void", "_private"} |->
          IF id = "_private" THEN Grimoire(TRUE, DocFile(<<"a">>), <<"d1">>)
          ELSE IF id = "void" THEN Grimoire(FALSE, DocFile(<<"a">>), v)
          ELSE Grimoire(FALSE, DocFile(<<"a">>), <<"d1">>)] : v \in {<<>>, <<"d1">>} }

\* The summary files the first run may find.
SeedCaches == {[id \in {} |-> EmptyText], [id \in {"fire"} |-> <<"Sum">>]}

\* The master index the first run may find: empty, or holding the entry an
\* earlier run upserted for fire, with its summary file, when the file of
\* fire was still empty.
SeedMasters ==
    { EmptyCollection,
      [id \in {"fire"} |->
          [id |-> "fire", document |-> <<"Sum">>, spell_count |-> 1,
           hash |-> ComputeGrimoriumHash(DocFile(<<>>), {})]] }

MetaInit ==
    /\ PolIdle /\ DiscIdle /\ SyncIdle /\ HashIdle /\ SearchIdle /\ GrimIdle /\ UnitIdle
    /\ grimoriums \in SeedGrimoriums
    /\ cacheFile \in SeedCaches
    /\ masterIndex \in {m \in SeedMasters : DOMAIN m \subseteq DOMAIN cacheFile}
    /\ pc = [id \in {} |-> "done"]
    /\ sem = 0
    /\ taskLocal = [id \in {} |-> EmptyText]
    /\ results = [id \in {} |-> EmptyText]
    /\ lastMeta = NoMeta
    /\ prevMeta = [status |-> "none", sources |-> lastMeta.sources, fault |-> NoMetaFault]
    /\ metaRuns = 0

MetaFaults ==
    {NoMetaFault} \cup
    {[id |-> id, kind |-> k] : id \in {"arcane", "fire"}, k \in MetaFaultKinds}

\* No run is under way and no task of an earlier run is still running.
Quiet ==
    /\ lastMeta.status # "running"
    /\ \A id \in DOMAIN pc : pc[id] \in {"done", "failed"}

NewRun(variant, concurrency, fault) ==
    [status |-> "running", variant |-> variant, concurrency |-> concurrency,
     fault |-> fault, calls |-> {}, upserts |-> <<>>,
     sources |-> grimoriums, cacheAtStart |-> cacheFile,
     masterAtStart |-> masterIndex]

\* The source of a collection changes between two runs: a docstring is
\* rewritten, or code of a collection without docstrings.
EditSource(id) ==
    /\ Quiet
    /\ metaRuns \in 1..(MaxMetaRuns - 1)
    /\ grimoriums[id].files = DocFile(<<"a">>)
    /\ grimoriums' = [grimoriums EXCEPT
                         ![id].files = DocFile(<<"b">>),
                         ![id].docs = IF @ = <<>> THEN <<>> ELSE <<"d2">>]
    /\ UNCHANGED <<cacheFile, masterIndex, pc, sem, taskLocal, results,
                   lastMeta, prevMeta, metaRuns>>
    /\ UNCHANGED <<polVars, discVars, syncVars, hashVars, searchVars, grimVars, unitVars>>

\* One call of sync_grimoriums_metadata.
MetaSync(fault) ==
    /\ Quiet
    /\ metaRuns < MaxMetaRuns
    /\ \E r \in {SyncGrimoriumsMetadata(grimoriums, cacheFile, masterIndex, fault)} :
           /\ cacheFile' = r.cache
           /\ masterIndex' = r.master
           /\ lastMeta' = [NewRun("sync", 1, fault) EXCEPT
                              !.status = IF r.exc THEN "raised" ELSE "returned",
                              !.calls = r.calls,
                              !.upserts = r.upserts]
    /\ prevMeta' = [status |-> lastMeta.status, sources |-> lastMeta.sources,
                    fault |-> lastMeta.fault]
    /\ metaRuns' = metaRuns + 1
    /\ pc' = [id \in {} |-> "done"]
    /\ UNCHANGED <<grimoriums, sem, taskLocal, results>>
    /\ UNCHANGED <<polVars, discVars, syncVars, hashVars, searchVars, grimVars, unitVars>>

\* sync_grimoriums_metadata_async(concurrency) creates the semaphore and one
\* task per folder.
StartAsync(concurrency, fault) ==
    /\ Quiet
    /\ metaRuns < MaxMetaRuns
    /\ lastMeta' = NewRun("async", concurrency, fault)
    /\ prevMeta' = [status |-> lastMeta.status, sources |-> lastMeta.sources,
                    fault |-> lastMeta.fault]
    /\ metaRuns' = metaRuns + 1
    /\ pc' = [id \in {Folders(grimoriums)[i] : i \in 1..Len(Folders(grimoriums))} |->
                 "waiting"]
    /\ sem' = concurrency
    /\ taskLocal' = [id \in {} |-> EmptyText]
    /\ results' = [id \in {} |-> EmptyText]
    /\ UNCHANGED <<grimoriums, cacheFile, masterIndex>>
    /\ UNCHANGED <<polVars, discVars, syncVars, hashVars, searchVars, grimVars, unitVars>>

\* A semaphore that always grants a permit.
CanAcquireAlways(value) == TRUE

\* async with semaphore: a permit is free
CanAcquire(value) == value > 0

\* A semaphore whose permit is not given back.
ReleaseNever(value) == value

\* async with semaphore: leaving the block, by return or by exception, gives
\* the permit back.
Release(value) == value + 1

\* A task enters process_folder and runs to its first await: it raises, or
\* returns its tuple, or starts its summarisation call in a thread.
TaskStart(id) ==
    /\ id \in DOMAIN pc /\ pc[id] = "waiting"
    /\ CanAcquire(sem)
    /\ \E p \in {PrepareFolder(id, grimoriums, cacheFile, masterIndex, lastMeta.fault)} :
           IF p.exc
           THEN /\ pc' = [pc EXCEPT ![id] = "failed"]
                /\ lastMeta' = [lastMeta EXCEPT !.status = "raised"]
                /\ UNCHANGED <<sem, taskLocal, results>>
           ELSE IF p.summarize
           THEN /\ pc' = [pc EXCEPT ![id] = "summarizing"]
                /\ sem' = sem - 1
                /\ taskLocal' = [x \in DOMAIN taskLocal \cup {id} |->
                                    IF x = id THEN p.current_hash ELSE taskLocal[x]]
                /\ lastMeta' = [lastMeta EXCEPT !.calls = @ \cup {id}]
                /\ UNCHANGED results
           ELSE /\ pc' = [pc EXCEPT ![id] = "done"]
                /\ results' = [x \in DOMAIN results \cup {id} |->
                                  IF x = id
                                  THEN MetaEntry(id, grimoriums, p.description,
                                                 p.current_hash)
                                  ELSE results[x]]
                /\ UNCHANGED <<sem, taskLocal, lastMeta>>
    /\ UNCHANGED <<grimoriums, cacheFile, masterIndex, prevMeta, metaRuns>>
    /\ UNCHANGED <<polVars, discVars, syncVars, hashVars, searchVars, grimVars, unitVars>>

\* The summarisation call of a task ends: the task writes the summary file,
\* returns its tuple and releases its permit.
TaskResume(id) ==
    /\ id \in DOMAIN pc /\ pc[id] = "summarizing"
    /\ \E text \in {GenerateGrimoriumSummary(id, ExtractSpellDocs(lastMeta.sources[id]),
                                              lastMeta.fault)} :
       \E w \in {WriteSummary(cacheFile, id, text, lastMeta.fault)} :
           /\ cacheFile' = w.cache
           /\ IF w.exc
              THEN /\ pc' = [pc EXCEPT ![id] = "failed"]
                   /\ lastMeta' = [lastMeta EXCEPT !.status = "raised"]
                   /\ UNCHANGED results
              ELSE /\ pc' = [pc EXCEPT ![id] = "done"]
                   /\ results' = [x \in DOMAIN results \cup {id} |->
                                     IF x = id
                                     THEN MetaEntry(id, grimoriums, text, taskLocal[id])
                                     ELSE results[x]]
                   /\ UNCHANGED lastMeta
    /\ sem' = Release(sem)
    /\ UNCHANGED <<grimoriums, masterIndex, taskLocal, prevMeta, metaRuns>>
    /\ UNCHANGED <<polVars, discVars, syncVars, hashVars, searchVars, grimVars, unitVars>>

\* results = await asyncio.gather(...) returns when every task has returned;
\* the batch is upserted in one call.
Join ==
    /\ lastMeta.status = "running"
    /\ \A id \in DOMAIN pc : pc[id] = "done"
    /\ LET folders == Folders(lastMeta.sources)
           batch == [i \in 1..Len(folders) |-> results[folders[i]]]
       IN /\ masterIndex' = IF batch # <<>> THEN UpsertMaster(masterIndex, batch)
                            ELSE masterIndex
          /\ lastMeta' = [lastMeta EXCEPT
                             !.status = "returned",
                             !.upserts = IF batch # <<>> THEN <<batch>> ELSE <<>>]
    /\ UNCHANGED <<grimoriums, cacheFile, pc, sem, taskLocal, results, prevMeta, metaRuns>>
    /\ UNCHANGED <<polVars, discVars, syncVars, hashVars, searchVars, grimVars, unitVars>>

MetaNext ==
    \/ \E id \in {"arcane", "fire", "void"} : EditSource(id)
    \/ \E fault \in MetaFaults : MetaSync(fault)
    \/ \E concurrency \in 1..MaxConcurrency, fault \in MetaFaults :
           StartAsync(concurrency, fault)
    \/ \E id \in {"arcane", "fire", "void"} : TaskStart(id)
    \/ \E id \in {"arcane", "fire", "void"} : TaskResume(id)
    \/ Join

SpecMeta == MetaInit /\ [][MetaNext]_vars

\* The run has ended: the call returned or raised, and no task is running.
MetaEnded == lastMeta.status \in {"returned", "raised"} /\ Quiet

\* A run followed a completed one.
AfterCompletedSync == prevMeta.status = "returned" /\ lastMeta.status # "none"

\* The collections whose source files are those of the run before.
SameSource ==
    {id \in DOMAIN lastMeta.sources :
        id \in DOMAIN prevMeta.sources /\ lastMeta.sources[id] = prevMeta.sources[id]}

\* The collections whose summary file held a description when the run began.
Cached ==
    {id \in DOMAIN lastMeta.cacheAtStart : lastMeta.cacheAtStart[id] # EmptyText}

SummarizeFailed ==
    lastMeta.fault.kind \in SummarizeFaults /\ lastMeta.fault.id \in lastMeta.calls

\* The description of a collection in the batch the run upserted.
DocumentOf(id) ==
    LET batch == lastMeta.upserts[1]
    IN batch[CHOOSE i \in 1..Len(batch) : batch[i].id = id].document

FolderSet == {id \in DOMAIN lastMeta.sources : ~lastMeta.sources[id].hidden}

\* C14: every run issues exactly one upsert to the master index, carrying one
\* entry per collection directory, and none before every collection has been
\* processed.
C14_OneBatchedUpsert ==
    /\ lastMeta.status = "running" => lastMeta.upserts = <<>>
    /\ MetaEnded =>
           /\ Len(lastMeta.upserts) = 1
           /\ Len(lastMeta.upserts[1]) = Cardinality(FolderSet)
           /\ \A id \in FolderSet : \E i \in 1..Len(lastMeta.upserts[1]) :
                  lastMeta.upserts[1][i].id = id

\* The summarisation calls in flight.
Outstanding == {id \in DOMAIN pc : pc[id] = "summarizing"}

\* C15: in the concurrent variant with limit N, at most N summarisation calls
\* are outstanding at any point of any interleaving.
C15_AtMostNOutstanding ==
    lastMeta.variant = "async" => Cardinality(Outstanding) <= lastMeta.concurrency

\* With limit 1, one call is in flight while two tasks wait for the permit.
C15_Witness ==
    /\ lastMeta.variant = "async" /\ lastMeta.status = "running"
    /\ lastMeta.concurrency = 1
    /\ Cardinality(Outstanding) = 1
    /\ Cardinality({id \in DOMAIN pc : pc[id] = "waiting"}) = 2

\* C16: a failure while processing one collection (reading its stored
\* metadata, reading its summary file, or summarising it) never aborts the
\* run: the run returns and the entry of every other collection is in the
\* batched upsert.
C16_FailureNeverAbortsRun ==
    (MetaEnded /\ lastMeta.fault.kind \in {"get", "read"} \cup SummarizeFaults) =>
        /\ lastMeta.status = "returned"
        /\ Len(lastMeta.upserts) = 1
        /\ \A id \in FolderSet \ {lastMeta.fault.id} :
               \E i \in 1..Len(lastMeta.upserts[1]) : lastMeta.upserts[1][i].id = id

\* The entry of a collection in the batch the run upserted.
EntryOf(id) ==
    LET batch == lastMeta.upserts[1]
    IN batch[CHOOSE i \in 1..Len(batch) : batch[i].id = id]

\* The hash of the sources the run found for a collection.
CurrentHash(id) == ComputeGrimoriumHash(lastMeta.sources[id].files, {})

\* The collections whose stored hash, when the run began, was not the hash of
\* their sources.
StaleAtStart ==
    {id \in FolderSet : /\ id \in DOMAIN lastMeta.masterAtStart
                        /\ lastMeta.masterAtStart[id].hash # EmptyText
                        /\ lastMeta.masterAtStart[id].hash # CurrentHash(id)}

\* What the summarisation capability makes of the doc text the run found for
\* a collection.
Generated(id) ==
    GenerateGrimoriumSummary(id, ExtractSpellDocs(lastMeta.sources[id]), lastMeta.fault)

\* C26: when the master index holds a stored hash of a collection that is not
\* the hash of its current sources, the summary file is not reused: the
\* description upserted is the one generated from the current doc text, or
\* the placeholder when there is no doc text or no text was generated, and
\* the entry carries the current hash.
C26_StaleDescriptionRegenerated ==
    (MetaEnded /\ lastMeta.status = "returned") =>
        \A id \in StaleAtStart :
            /\ EntryOf(id).hash = CurrentHash(id)
            /\ (id \in lastMeta.calls) = (ExtractSpellDocs(lastMeta.sources[id]) # <<>>)
            /\ EntryOf(id).document =
                   IF id \in lastMeta.calls /\ Generated(id) # EmptyText
                   THEN Generated(id) ELSE Placeholder(id)

\* A run found the sources of fire rewritten and those of void changed
\* without doc text: the description of fire is the summary of the new doc
\* text, not the one in its summary file, and void has the placeholder.
C26_Witness ==
    /\ MetaEnded /\ lastMeta.status = "returned"
    /\ {"fire", "void"} \subseteq StaleAtStart
    /\ "fire" \in Cached
    /\ lastMeta.cacheAtStart["fire"] # Summary("fire", <<"d2">>)
    /\ EntryOf("fire").document = Summary("fire", <<"d2">>)
    /\ EntryOf("fire").hash = CurrentHash("fire")
    /\ EntryOf("fire").hash # lastMeta.masterAtStart["fire"].hash
    /\ EntryOf("void").document = Placeholder("void")

\* The summary of a collection was generated in the run and writing its
\* summary file failed.
WriteFailed ==
    lastMeta.fault.kind \in WriteFaults /\ lastMeta.fault.id \in lastMeta.calls

\* C27: when writing the summary file fails after a summary was generated,
\* the run does not raise, and the entry upserted for the collection carries
\* the description just generated.
C27_WriteFailureKeepsDescription ==
    WriteFailed =>
        /\ lastMeta.status # "raised"
        /\ lastMeta.status = "returned" =>
               EntryOf(lastMeta.fault.id).document = Generated(lastMeta.fault.id)

\* A run that could not write the summary file of arcane has returned: the
\* file is still missing and the batch carries the summary.
C27_Witness ==
    /\ WriteFailed /\ MetaEnded
    /\ lastMeta.status = "returned"
    /\ lastMeta.fault.id = "arcane"
    /\ "arcane" \notin DOMAIN cacheFile
    /\ EntryOf("arcane").document = Summary("arcane", <<"d1">>)

\* C28: a concurrent run ends with the upsert batch and the summary files
\* that the synchronous run produces from the same tree, summary files and
\* master index, whatever the limit and the interleaving.
C28_VariantsAgree ==
    (MetaEnded /\ lastMeta.variant = "async") =>
        LET r == SyncGrimoriumsMetadata(lastMeta.sources, lastMeta.cacheAtStart,
                                        lastMeta.masterAtStart, lastMeta.fault)
        IN /\ lastMeta.upserts = r.upserts
           /\ cacheFile = r.cache

\* An earlier run upserted an entry for the collection that carries the hash
\* of the sources as they are now.
UpsertedWithCurrentHash(id) ==
    /\ id \in DOMAIN lastMeta.masterAtStart
    /\ lastMeta.masterAtStart[id].hash = CurrentHash(id)

\* The summarisation capability is deterministic for the collection: it does
\* not fail in this run, and it returns the empty text neither in this run
\* nor in the one before.
Deterministic(id) ==
    /\ MetaFaultIn(lastMeta.fault, id) \notin SummarizeFaults \cup {"empty"}
    /\ MetaFaultIn(prevMeta.fault, id) # "empty"

\* C34: with a deterministic summarisation capability, once a run has
\* upserted a description for a collection together with the hash of its
\* current sources, every later run over the same sources upserts the same
\* description for it, also when an earlier write of the summary file or an
\* earlier summarisation call failed.
C34_LaterSyncUpsertsSameDescription ==
    (MetaEnded /\ lastMeta.status = "returned") =>
        \A id \in FolderSet :
            (UpsertedWithCurrentHash(id) /\ Deterministic(id)) =>
                EntryOf(id).document = lastMeta.masterAtStart[id].document

----------------------------------------------------------------------------
(* Specification of the concurrent metadata synchroniser under the event     *)
(* loop's scheduling: a task that can run is run, a summarisation call that  *)
(* was started ends, and the join is resumed once every task has returned.   *)

TaskIds == {"arcane", "fire", "void"}

MetaLiveNext ==
    \/ \E concurrency \in 1..MaxConcurrency, fault \in MetaFaults :
           StartAsync(concurrency, fault)
    \/ \E id \in TaskIds : TaskStart(id)
    \/ \E id \in TaskIds : TaskResume(id)
    \/ Join

MetaFairness ==
    /\ \A id \in TaskIds : WF_vars(TaskStart(id)) /\ WF_vars(TaskResume(id))
    /\ WF_vars(Join)

SpecMetaLive == MetaInit /\ [][MetaLiveNext]_vars /\ MetaFairness

\* C35: whatever the limit and the directories, when every summarisation
\* call ends the concurrent run ends too, by returning or by raising, with
\* no task left waiting for a permit and every permit given back.
C35_ConcurrentSyncCompletes ==
    (lastMeta.variant = "async" /\ lastMeta.status = "running")
        ~> (MetaEnded /\ sem = lastMeta.concurrency)

\* A concurrent run with one permit, in which each of the three collections
\* had to be summarised in turn, has returned with the permit free.
C35_Witness ==
    /\ lastMeta.variant = "async" /\ lastMeta.concurrency = 1
    /\ MetaEnded /\ lastMeta.status = "returned"
    /\ lastMeta.calls = TaskIds
    /\ sem = 1

----------------------------------------------------------------------------
(* Specification of what the engine exposes: discovery and the metadata      *)
(* synchroniser, in either variant, run over one and the same tree.          *)

\* The docstrings _extract_spell_docs finds in the files of a directory of the
\* tree: those of the members of its non-hidden files that parse.
RECURSIVE DocsOfMembers(_, _)
DocsOfMembers(members, i) ==
    IF i > Len(members) THEN <<>>
    ELSE (IF members[i].doc = "" THEN <<>> ELSE <<members[i].doc>>)
             \o DocsOfMembers(members, i + 1)

RECURSIVE DocsOfFiles(_, _)
DocsOfFiles(files, i) ==
    IF i > Len(files) THEN <<>>
    ELSE (IF files[i].hidden \/ files[i].status = "syntax" THEN <<>>
          ELSE DocsOfMembers(files[i].members, 1))
             \o DocsOfFiles(files, i + 1)

\* The tree as the metadata synchroniser sees it: the directories of the
\* root by name, each with its files (one file standing for their bytes) and
\* its docstrings.
MetaView(root) ==
    LET dirs == {i \in 1..Len(root.entries) :
                    root.entries[i].isDir /\ Len(root.entries[i].name) = 1}
    IN  [id \in {root.entries[i].name[1] : i \in dirs} |->
            LET e == root.entries[CHOOSE i \in dirs : root.entries[i].name[1] = id]
            IN  Grimoire(e.hidden,
                         IF e.files = <<>> THEN EmptyFolder ELSE DocFile(<<"a">>),
                         DocsOfFiles(e.files, 1))]

ExposureRoots ==
    {Root(TRUE, <<DirEntry(Arcane, FALSE, TRUE, mf, fs)>> \o p) :
        mf \in ManifestFiles,
        fs \in {<<>>, <<PyFile(FALSE, "ok", <<Member("f", "spell")>>)>>},
        p \in OneOrNone(PrivateEntries)}

ExposureInit ==
    /\ PolIdle /\ SyncIdle /\ HashIdle /\ SearchIdle /\ GrimIdle /\ UnitIdle
    /\ registry = EmptyRegistry
    /\ regLog = {}
    /\ loaded = {}
    /\ raised = FALSE
    /\ lastRoot \in ExposureRoots
    /\ lastStrict \in BOOLEAN
    /\ passes = 0
    /\ grimoriums = MetaView(lastRoot)
    /\ cacheFile = [id \in {} |-> EmptyText]
    /\ masterIndex = EmptyCollection
    /\ pc = [id \in {} |-> "done"]
    /\ sem = 0
    /\ taskLocal = [id \in {} |-> EmptyText]
    /\ results = [id \in {} |-> EmptyText]
    /\ lastMeta = NoMeta
    /\ prevMeta = [status |-> "none", sources |-> lastMeta.sources, fault |-> NoMetaFault]
    /\ metaRuns = 0

ExposureNext ==
    \/ Discover(lastRoot, lastStrict)
    \/ MetaSync(NoMetaFault)
    \/ \E concurrency \in 1..MaxConcurrency : StartAsync(concurrency, NoMetaFault)
    \/ TaskStart("arcane")
    \/ TaskResume("arcane")
    \/ Join

SpecExposure == ExposureInit /\ [][ExposureNext]_vars

\* The directory of the tree with the given id.
EntryNamed(id) ==
    lastRoot.entries[CHOOSE i \in 1..Len(lastRoot.entries) : lastRoot.entries[i].name = <<id>>]

\* Discovery does not skip the directory: it passes the strict-mode gate and
\* the disabled gate.
AdmittedByDiscovery(e, strict_mode) ==
    /\ e.isDir /\ ~e.hidden
    /\ ~StrictGate(strict_mode, LoadManifest(e))
    /\ ~DisabledGate(LoadManifest(e))

\* C32: every collection id the metadata synchroniser, in either variant,
\* upserts into the master index is a collection that discovery admits under
\* the engine's strict_mode: its manifest does not set enabled to false and,
\* in strict mode, it has a manifest.  A disabled or ungoverned collection is
\* never in the master index for a search of it to return.
C32_MasterHoldsAdmittedOnly ==
    \A id \in DOMAIN masterIndex : AdmittedByDiscovery(EntryNamed(id), lastStrict)

----------------------------------------------------------------------------
(* Specification of search and access guard: calls on one vector store,     *)
(* under one allow-list.                                                    *)

\* The values of self.top_spells in the model.
MaxTopSpells == 2

Stores == [{CollNames[i] : i \in 1..Len(CollNames)} -> StoreColls]

SearchInit ==
    /\ PolIdle /\ DiscIdle /\ SyncIdle /\ HashIdle /\ MetaIdle /\ GrimIdle /\ UnitIdle
    /\ vector_store \in Stores
    /\ allowed_collections \in AllowLists
    /\ top_spells \in 1..MaxTopSpells
    /\ lastSearch = NoSearch

Searched(op, query, target, listFails, r) ==
    [op |-> op, query |-> query, target |-> target, listFails |-> listFails,
     result |-> r.result, queried |-> r.queried, raised |-> r.exc]

\* One call of find_matching_spells.
CallFindMatchingSpells(query, listFails) ==
    /\ lastSearch' = Searched("find_matching_spells", query, "", listFails,
                         FindMatchingSpells(query, vector_store, allowed_collections, top_spells, listFails))
    /\ UNCHANGED <<vector_store, allowed_collections, top_spells>>
    /\ UNCHANGED <<polVars, discVars, syncVars, hashVars, metaVars, grimVars, unitVars>>

\* One call of find_spells_within_grimorium.
CallFindSpellsWithinGrimorium(grimorium_id) ==
    /\ lastSearch' = Searched("find_spells_within_grimorium", "q", grimorium_id, FALSE,
                         FindSpellsWithinGrimorium(grimorium_id, vector_store, allowed_collections, top_spells))
    /\ UNCHANGED <<vector_store, allowed_collections, top_spells>>
    /\ UNCHANGED <<polVars, discVars, syncVars, hashVars, metaVars, grimVars, unitVars>>

\* One call of validate_spell_access.
CallValidateSpellAccess(spell_name) ==
    /\ lastSearch' = Searched("validate_spell_access", "", spell_name, FALSE,
                         ValidateSpellAccess(spell_name, vector_store, allowed_collections))
    /\ UNCHANGED <<vector_store, allowed_collections, top_spells>>
    /\ UNCHANGED <<polVars, discVars, syncVars, hashVars, metaVars, grimVars, unitVars>>

SearchNext ==
    \/ \E query \in {"q", "", " "}, listFails \in BOOLEAN :
           CallFindMatchingSpells(query, listFails)
    \/ \E grimorium_id \in {"arcane", "fire", "void", "other"} :
           CallFindSpellsWithinGrimorium(grimorium_id)
    \/ \E spell_name \in {"s1", "s2", "s3", "s4", "s5"} :
           CallValidateSpellAccess(spell_name)

SpecSearch == SearchInit /\ [][SearchNext]_vars

\* The last call was a search over all collections that reached its loop.
SearchedAll ==
    /\ lastSearch.op = "find_matching_spells"
    /\ ~InvalidQuery(lastSearch.query) /\ ~lastSearch.listFails
    /\ ~lastSearch.raised

\* The (id, distance) pairs the queried collections returned.
Returned ==
    UNION {{Query(vector_store[c], top_spells)[i] : i \in 1..Len(Query(vector_store[c], top_spells))} :
              c \in {q \in lastSearch.queried : ~vector_store[q].fails}}

\* The least distance of an id over the queried collections.
MinDist(id) ==
    CHOOSE d \in {m.dist : m \in {x \in Returned : x.id = id}} :
        \A m \in {x \in Returned : x.id = id} : d <= m.dist

\* The ids whose least distance is within the threshold.
Qualifying ==
    {id \in {m.id : m \in Returned} : MinDist(id) <= DistanceThreshold}

ResultIds == {lastSearch.result[i] : i \in 1..Len(lastSearch.result)}

\* C17: find_matching_spells returns exactly the ids whose minimum distance
\* over the queried collections is <= threshold (a distance equal to the
\* threshold included), each once, in ascending order of that distance,
\* truncated to the first K.
C17_RankedThresholdedTopK ==
    SearchedAll =>
        /\ ResultIds \subseteq Qualifying
        /\ Cardinality(ResultIds) = Len(lastSearch.result)
        /\ Len(lastSearch.result) =
               IF Cardinality(Qualifying) < top_spells THEN Cardinality(Qualifying)
               ELSE top_spells
        /\ \A i, j \in 1..Len(lastSearch.result) :
               i < j => MinDist(lastSearch.result[i]) <= MinDist(lastSearch.result[j])
        /\ \A id \in Qualifying \ ResultIds : \A r \in ResultIds :
               MinDist(r) <= MinDist(id)

\* A search with K = 2 over three collections: s1 was returned by two of them
\* at distances 1 and 3, s3 at the threshold was cut by K, and the result is
\* s1 then s2.
C17_Witness ==
    /\ SearchedAll
    /\ top_spells = 2
    /\ lastSearch.queried = {"arcane", "fire", "void"}
    /\ Match("s1", 1) \in Returned /\ Match("s1", 3) \in Returned
    /\ Qualifying = {"s1", "s2", "s3"}
    /\ MinDist("s3") = DistanceThreshold
    /\ lastSearch.result = <<"s1", "s2">>

\* The names in the allow-list.
AllowedNames == {allowed_collections.items[i] : i \in 1..Len(allowed_collections.items)}

\* C18: when an allow-list is set, find_matching_spells queries only
\* collections named in it, every id it returns was returned by an
\* allow-listed collection, and the result is empty when no existing
\* collection is in the allow-list.
C18_SearchWithinAllowList ==
    (lastSearch.op = "find_matching_spells" /\ ~allowed_collections.isNone) =>
        /\ lastSearch.queried \subseteq AllowedNames
        /\ \A id \in ResultIds : \E c \in AllowedNames \cap DOMAIN vector_store :
               \E i \in 1..Len(vector_store[c].ranking) : vector_store[c].ranking[i].id = id
        /\ AllowedNames \cap DOMAIN vector_store = {} => lastSearch.result = <<>>

\* Under the allow-list [fire, void] a search left arcane out, though arcane
\* holds a match within the threshold, and returned ids of the other two.
C18_Witness ==
    /\ SearchedAll
    /\ allowed_collections = AllowList(FALSE, <<"fire", "void">>, 0)
    /\ lastSearch.queried = {"fire", "void"}
    /\ vector_store["arcane"] = StoreColl(FALSE, <<Match("s1", 1), Match("s2", 4)>>)
    /\ "s1" \notin ResultIds
    /\ lastSearch.result # <<>>

\* The vector store with the failing collections replaced by empty ones.
WithoutFailing ==
    [c \in DOMAIN vector_store |->
        IF vector_store[c].fails THEN StoreColl(FALSE, <<>>) ELSE vector_store[c]]

\* C29: in find_matching_spells a collection that cannot be opened or queried
\* takes only its own matches out of the result, which is the ranked result
\* of the other collections, and a failure to list the collections gives the
\* empty result; neither raises.
C29_CollectionFailureIsolated ==
    (/\ lastSearch.op = "find_matching_spells"
     /\ ~InvalidQuery(lastSearch.query)
     /\ allowed_collections.failsAt = 0) =>
        /\ ~lastSearch.raised
        /\ lastSearch.result =
               IF lastSearch.listFails THEN <<>>
               ELSE FindMatchingSpells(lastSearch.query, WithoutFailing,
                                       allowed_collections, top_spells, FALSE).result

\* A search in which fire could not be queried returned the ranked matches
\* of arcane and void.
C29_Witness ==
    /\ SearchedAll
    /\ lastSearch.queried = {"arcane", "fire", "void"}
    /\ vector_store["fire"].fails
    /\ ~vector_store["arcane"].fails /\ ~vector_store["void"].fails
    /\ top_spells = 2
    /\ Len(lastSearch.result) = 2
    /\ \E i \in 1..Len(vector_store["arcane"].ranking) :
           vector_store["arcane"].ranking[i].id = lastSearch.result[1]
    /\ \E i \in 1..Len(vector_store["void"].ranking) :
           vector_store["void"].ranking[i].id = lastSearch.result[2]
    /\ lastSearch.result[2] \notin
           {vector_store["arcane"].ranking[i].id : i \in 1..Len(vector_store["arcane"].ranking)}

\* C19: for every configured allow-list, the empty list included, that does
\* not contain collection_id, find_spells_within_grimorium returns an empty
\* list and issues no query.
C19_WithinDeniedOutsideAllowList ==
    (/\ lastSearch.op = "find_spells_within_grimorium"
     /\ ~allowed_collections.isNone /\ allowed_collections.failsAt = 0
     /\ lastSearch.target \notin AllowedNames) =>
        /\ lastSearch.result = <<>>
        /\ lastSearch.queried = {}

\* The lookups validate_spell_access can make: one per name the allow-list
\* yields.
Enumerated == {Yielded(allowed_collections)[i] : i \in 1..Len(Yielded(allowed_collections))}

\* C20: validate_spell_access is true whenever no allow-list is configured;
\* with an allow-list it is true exactly when the lookup of the name in one
\* of the enumerated collections succeeds and returns it, a failed lookup
\* counting as not found and a failed enumeration giving false; it never
\* raises.
C20_AccessGuard ==
    lastSearch.op = "validate_spell_access" =>
        /\ ~lastSearch.raised
        /\ allowed_collections.isNone => lastSearch.result = TRUE
        /\ ~allowed_collections.isNone =>
               (lastSearch.result = TRUE <=>
                   \E c \in Enumerated \cap DOMAIN vector_store :
                       /\ ~vector_store[c].fails
                       /\ \E i \in 1..Len(vector_store[c].ranking) :
                              vector_store[c].ranking[i].id = lastSearch.target)
        /\ (~allowed_collections.isNone /\ allowed_collections.failsAt = 1) => lastSearch.result = FALSE

\* Under the allow-list [other, void] the name was found in void, after the
\* lookup in the missing collection other had failed.
C20_Witness ==
    /\ lastSearch.op = "validate_spell_access"
    /\ allowed_collections = AllowList(FALSE, <<"other", "void">>, 0)
    /\ lastSearch.queried = {"other", "void"}
    /\ lastSearch.result = TRUE

----------------------------------------------------------------------------
(* Specification of the toolset: a Grimorium built with auto_initialize off, *)
(* initialised by either method, and its operations called before and after. *)

\* A call of an operation, which runs no discovery and no synchronisation.
Called(op, arg, ends, o) ==
    [op |-> op, arg |-> arg, ends |-> ends, wasInit |-> _initialized,
     raised |-> o.raised, status |-> o.status, message |-> o.message,
     result |-> o.result, guard |-> o.guard, invoked |-> o.invoked,
     queried |-> o.queried, discoveries |-> 0, syncs |-> 0, metaSyncs |-> 0,
     registry |-> registry, index |-> index, master |-> masterIndex]

\* The vector store the toolset is given: empty, or holding a spell of an
\* earlier run that the tree no longer has.
SeedIndexes ==
    { EmptyIndex,
      [c \in {"arcane"} |->
          [id \in {<<"arcane", "old">>} |-> [document |-> "d0", hash |-> Md5("d0")]]] }

GrimAllowLists ==
    { NoAllowList,
      AllowList(FALSE, <<>>, 0),
      AllowList(FALSE, <<"arcane">>, 0),
      AllowList(FALSE, <<"fire", "void">>, 0),
      AllowList(FALSE, <<"other">>, 0) }

GrimInit ==
    /\ PolIdle /\ DiscIdle /\ HashIdle /\ UnitIdle
    /\ index \in SeedIndexes
    /\ syncCalls = 0 /\ lastSync = NoSync /\ prevSync = NoSync
    /\ grimoriums \in {g \in SeedGrimoriums : g["void"].docs = <<>>}
    /\ cacheFile = [id \in {} |-> EmptyText]
    /\ masterIndex = EmptyCollection
    /\ pc = [id \in {} |-> "done"]
    /\ sem = 0
    /\ taskLocal = [id \in {} |-> EmptyText]
    /\ results = [id \in {} |-> EmptyText]
    /\ lastMeta = NoMeta
    /\ prevMeta = [status |-> "none", sources |-> EmptyGrimoriums, fault |-> NoMetaFault]
    /\ metaRuns = 0
    /\ vector_store = [c \in {} |-> StoreColl(FALSE, <<>>)]
    /\ allowed_collections \in GrimAllowLists
    /\ top_spells = MaxTopSpells
    /\ lastSearch = NoSearch
    /\ _initialized = FALSE
    /\ _strict_mode \in BOOLEAN
    /\ lastCall = NoCall
    /\ awaiting = <<>>

\* One call of initialize() or _sync_initialize() on the tree as it is, with a
\* vector store that takes every spell; an initialisation that runs counts
\* as a discovery pass.
CallInitialize(variant, root, metaFault) ==
    /\ _initialized \/ passes < MaxPasses
    /\ \E r \in {Initialize(variant, root, _initialized, _strict_mode, registry, index,
                            grimoriums, cacheFile, masterIndex, NoFault, metaFault)} :
           /\ _initialized' = r.initialized
           /\ IF r.discoveries = 0 THEN UNCHANGED discVars
              ELSE /\ registry' = r.pass.registry
                   /\ regLog' = r.pass.regLog
                   /\ loaded' = r.pass.loaded
                   /\ raised' = r.pass.exc
                   /\ lastRoot' = root
                   /\ lastStrict' = _strict_mode
                   /\ passes' = passes + 1
           /\ IF r.syncs = 0 THEN UNCHANGED syncVars
              ELSE /\ index' = r.sync.index
                   /\ lastSync' = [called |-> TRUE, registry |-> r.pass.registry,
                                   fault |-> NoFault, before |-> index,
                                   upserts |-> r.sync.upserts,
                                   skipped |-> r.sync.skipped, raised |-> r.sync.exc]
                   /\ prevSync' = lastSync
                   /\ syncCalls' = syncCalls + 1
           /\ cacheFile' = r.meta.cache
           /\ masterIndex' = r.meta.master
           /\ lastCall' = [Called(IF variant = "async" THEN "initialize"
                                  ELSE "_sync_initialize", <<>>, "none",
                                  Outcome(r.raised, "none", "none", <<>>, "none", FALSE, {}))
                              EXCEPT !.discoveries = r.discoveries,
                                     !.syncs = r.syncs,
                                     !.metaSyncs = r.metaSyncs]
    /\ UNCHANGED <<_strict_mode, awaiting, grimoriums, pc, sem, taskLocal, results,
                   lastMeta, prevMeta, metaRuns>>
    /\ UNCHANGED <<polVars, hashVars, searchVars, unitVars>>

\* One call of execute_spell.
CallExecuteSpell(spell_name, ends) ==
    /\ lastCall' = Called("execute_spell", spell_name, ends,
                          ExecuteSpell(spell_name, ends, _initialized, registry, index,
                                       allowed_collections))
    /\ UNCHANGED <<_initialized, _strict_mode, awaiting>>
    /\ UNCHANGED <<polVars, discVars, syncVars, hashVars, metaVars, searchVars, unitVars>>

\* One call of discover_spells.
CallDiscoverSpells(grimorium_id) ==
    /\ lastCall' = Called("discover_spells", <<grimorium_id>>, "none",
                          DiscoverSpells(grimorium_id, _initialized, registry, index,
                                         allowed_collections, top_spells))
    /\ UNCHANGED <<_initialized, _strict_mode, awaiting>>
    /\ UNCHANGED <<polVars, discVars, syncVars, hashVars, metaVars, searchVars, unitVars>>

\* One call of discover_grimoriums; the query of the master index returns
\* every collection it holds, or none.
CallDiscoverGrimoriums(query, all) ==
    /\ lastCall' = Called("discover_grimoriums", <<query>>, "none",
                          DiscoverGrimoriums(query, _initialized,
                              IF all THEN SelectSeq(MetaIds, LAMBDA id : id \in DOMAIN masterIndex)
                              ELSE <<>>))
    /\ UNCHANGED <<_initialized, _strict_mode, awaiting>>
    /\ UNCHANGED <<polVars, discVars, syncVars, hashVars, metaVars, searchVars, unitVars>>

\* One call of list_spells.
CallListSpells ==
    /\ lastCall' = Called("list_spells", <<>>, "none", GetAttr("list_spells"))
    /\ UNCHANGED <<_initialized, _strict_mode, awaiting>>
    /\ UNCHANGED <<polVars, discVars, syncVars, hashVars, metaVars, searchVars, unitVars>>

\* The names execute_spell is called with: two spells of the tree, the spell
\* of the earlier run, and a name nothing has.
GrimNames ==
    {<<"arcane", "f">>, <<"fire", "v2", "g">>, <<"arcane", "old">>, <<"nope">>}

GrimMetaFaults == {NoMetaFault, [id |-> "arcane", kind |-> "get"]}

GrimNext ==
    \/ \E variant \in {"sync", "async"}, root \in SeedRoots, metaFault \in GrimMetaFaults :
           CallInitialize(variant, root, metaFault)
    \/ \E spell_name \in GrimNames, ends \in SpellEnds :
           CallExecuteSpell(spell_name, ends)
    \/ \E grimorium_id \in {"arcane", "fire", "other"} : CallDiscoverSpells(grimorium_id)
    \/ \E query \in {"q", ""}, all \in BOOLEAN : CallDiscoverGrimoriums(query, all)
    \/ CallListSpells

SpecGrimorium == GrimInit /\ [][GrimNext]_vars

\* C21: execute_spell invokes the callable of a spell only when the access
\* guard answered true for the name in that call and the name is a key of
\* the registry; when the guard answers false the result is the 'Permission
\* denied' error and no callable is invoked.
C21_GuardBeforeInvocation ==
    lastCall.op = "execute_spell" =>
        /\ lastCall.invoked =>
               /\ lastCall.guard = "granted"
               /\ lastCall.arg \in DOMAIN lastCall.registry
        /\ lastCall.guard = "denied" =>
               /\ lastCall.raised = "none"
               /\ lastCall.status = "error"
               /\ lastCall.message = "Permission denied"
               /\ ~lastCall.invoked

\* Under the allow-list [arcane], a registered spell of the collection fire
\* was asked for: the guard looked into arcane, answered false, and the
\* spell was not invoked.
C21_Witness ==
    /\ lastCall.op = "execute_spell" /\ lastCall.wasInit
    /\ allowed_collections = AllowList(FALSE, <<"arcane">>, 0)
    /\ lastCall.arg = <<"fire", "v2", "g">>
    /\ lastCall.arg \in DOMAIN registry
    /\ lastCall.queried = {"arcane"}
    /\ lastCall.guard = "denied"
    /\ lastCall.message = "Permission denied"
    /\ ~lastCall.invoked

\* C22: on an initialised toolset execute_spell never raises: a name the
\* registry does not have, arguments that do not fit and an exception of the
\* spell each give a result of status 'error', and a spell that returns gives
\* status 'success' with its return value.
C22_ExecuteNeverRaises ==
    (lastCall.op = "execute_spell" /\ lastCall.wasInit) =>
        /\ lastCall.raised = "none"
        /\ lastCall.arg \notin DOMAIN lastCall.registry => lastCall.status = "error"
        /\ (lastCall.invoked /\ lastCall.ends \in {"TypeError", "Exception"}) =>
               lastCall.status = "error"
        /\ (lastCall.invoked /\ lastCall.ends = "returns") =>
               /\ lastCall.status = "success"
               /\ lastCall.result = ReturnValue(lastCall.arg)
        /\ lastCall.status \in {"success", "error"}
        /\ lastCall.status = "success" => lastCall.invoked /\ lastCall.ends = "returns"

\* A spell that raised was reported as an error of the execution.
C22_Witness ==
    /\ lastCall.op = "execute_spell" /\ lastCall.wasInit
    /\ lastCall.invoked /\ lastCall.ends = "Exception"
    /\ lastCall.raised = "none"
    /\ lastCall.status = "error"
    /\ lastCall.message = "Execution failed"

\* The operations of the toolset.
Operations == {"list_spells", "execute_spell", "discover_grimoriums", "discover_spells"}

\* C23: before the toolset is initialised, each of list_spells,
\* execute_spell, discover_grimoriums and discover_spells raises the 'not
\* initialized' RuntimeError, queries no index and invokes no spell.
C23_UninitializedCallsRaise ==
    (lastCall.op \in Operations /\ ~lastCall.wasInit) =>
        /\ lastCall.raised = "RuntimeError"
        /\ lastCall.message = "Grimorium not initialized"
        /\ lastCall.queried = {}
        /\ ~lastCall.invoked

\* The calls that initialise.
Initializers == {"initialize", "_sync_initialize"}

\* C30: on an initialised toolset initialize() and _sync_initialize() run no
\* discovery and no synchronisation and leave the registry and the indices
\* as they are; an initialisation that succeeds runs discovery exactly once.
C30_InitializeIsIdempotent ==
    lastCall.op \in Initializers =>
        /\ lastCall.wasInit =>
               /\ lastCall.raised = "none"
               /\ lastCall.discoveries = 0
               /\ lastCall.syncs = 0 /\ lastCall.metaSyncs = 0
               /\ registry = lastCall.registry
               /\ index = lastCall.index
               /\ masterIndex = lastCall.master
               /\ _initialized
        /\ (~lastCall.wasInit /\ lastCall.raised = "none") =>
               /\ lastCall.discoveries = 1
               /\ _initialized

\* initialize() was called on a toolset that _sync_initialize() had
\* initialised over a tree with spells: nothing ran, and the metadata of the
\* collections, which only initialize() synchronises, is still missing.
C30_Witness ==
    /\ lastCall.op = "initialize" /\ lastCall.wasInit
    /\ passes = 1 /\ syncCalls = 1
    /\ DOMAIN registry # {}
    /\ index # EmptyIndex
    /\ masterIndex = EmptyCollection
    /\ lastCall.discoveries = 0

\* The non-hidden collection directories under the root.
CollectionDirs == {Folders(grimoriums)[i] : i \in 1..Len(Folders(grimoriums))}

\* C33: whenever the toolset is initialised, by _sync_initialize() as the
\* constructor calls it or by initialize(), the master index holds an entry
\* for every non-hidden collection directory under the root, so that
\* discover_grimoriums can return it.
C33_InitializedHasMasterEntries ==
    _initialized => \A id \in CollectionDirs : id \in DOMAIN masterIndex

----------------------------------------------------------------------------
(* Specification of two initialize() calls on one toolset: a call runs to    *)
(* its await of the metadata synchroniser, and is resumed when that ends;    *)
(* the other call may start in between.                                      *)

Callers == {1, 2}

OverlapRoots == SeedRoots \cup SyncRoots

OverlapInit ==
    /\ PolIdle /\ HashIdle /\ SearchIdle /\ UnitIdle
    /\ registry = EmptyRegistry
    /\ regLog = {}
    /\ loaded = {}
    /\ raised = FALSE
    /\ lastRoot \in OverlapRoots
    /\ lastStrict \in BOOLEAN
    /\ passes = 0
    /\ index \in SeedIndexes
    /\ syncCalls = 0 /\ lastSync = NoSync /\ prevSync = NoSync
    /\ grimoriums \in {g \in SeedGrimoriums : g["void"].docs = <<>>}
    /\ cacheFile = [id \in {} |-> EmptyText]
    /\ masterIndex = EmptyCollection
    /\ pc = [id \in {} |-> "done"]
    /\ sem = 0
    /\ taskLocal = [id \in {} |-> EmptyText]
    /\ results = [id \in {} |-> EmptyText]
    /\ lastMeta = NoMeta
    /\ prevMeta = [status |-> "none", sources |-> EmptyGrimoriums, fault |-> NoMetaFault]
    /\ metaRuns = 0
    /\ _initialized = FALSE
    /\ _strict_mode = lastStrict
    /\ lastCall = NoCall
    /\ awaiting = <<>>

\* Where a call is, and whether it began while the other one was suspended.
CallAt(c, at, overlapped) ==
    [x \in DOMAIN awaiting \cup {c} |->
        IF x = c THEN [at |-> at, overlapped |-> overlapped] ELSE awaiting[x]]

Suspended == {c \in DOMAIN awaiting : awaiting[c].at = "suspended"}

\* initialize() from its entry to its await: the test of the flag, discovery,
\* sync_spells, and the start of sync_grimoriums_metadata_async.
BeginInitialize(c) ==
    /\ c \notin DOMAIN awaiting
    /\ IF AlreadyInitialized(_initialized)
       THEN /\ awaiting' = CallAt(c, "returned", Suspended # {})
            /\ UNCHANGED <<discVars, syncVars>>
       ELSE \E d \in {DiscoverAndLoadSpells(lastRoot, registry, _strict_mode)} :
            /\ registry' = d.registry
            /\ regLog' = d.regLog
            /\ loaded' = d.loaded
            /\ raised' = d.exc
            /\ passes' = passes + 1
            /\ UNCHANGED <<lastRoot, lastStrict>>
            /\ IF d.exc
               THEN /\ awaiting' = CallAt(c, "raised", Suspended # {})
                    /\ UNCHANGED syncVars
               ELSE \E s \in {SyncSpells(d.registry, index, NoFault)} :
                    /\ index' = s.index
                    /\ lastSync' = [called |-> TRUE, registry |-> d.registry,
                                    fault |-> NoFault, before |-> index,
                                    upserts |-> s.upserts, skipped |-> s.skipped,
                                    raised |-> s.exc]
                    /\ prevSync' = lastSync
                    /\ syncCalls' = syncCalls + 1
                    /\ awaiting' = CallAt(c, "suspended", Suspended # {})
    /\ UNCHANGED <<_initialized, _strict_mode, lastCall>>
    /\ UNCHANGED <<polVars, hashVars, metaVars, searchVars, unitVars>>

\* The awaited metadata sync of a call ends, taken as one step by what the
\* synchronous loop yields, and the call sets the flag and returns.
EndInitialize(c) ==
    /\ c \in Suspended
    /\ \E m \in {SyncGrimoriumsMetadata(grimoriums, cacheFile, masterIndex, NoMetaFault)} :
           /\ cacheFile' = m.cache
           /\ masterIndex' = m.master
           /\ _initialized' = (_initialized \/ ~m.exc)
           /\ awaiting' = CallAt(c, IF m.exc THEN "raised" ELSE "returned",
                                 awaiting[c].overlapped)
    /\ UNCHANGED <<_strict_mode, lastCall, grimoriums, pc, sem, taskLocal, results,
                   lastMeta, prevMeta, metaRuns>>
    /\ UNCHANGED <<polVars, discVars, syncVars, hashVars, searchVars, unitVars>>

OverlapNext == \E c \in Callers : BeginInitialize(c) \/ EndInitialize(c)

SpecOverlap == OverlapInit /\ [][OverlapNext]_vars

\* Both calls have returned.
BothReturned == \A c \in Callers : c \in DOMAIN awaiting /\ awaiting[c].at = "returned"

\* One of the calls began while the other was suspended in its metadata sync.
Overlapped == \E c \in DOMAIN awaiting : awaiting[c].overlapped

\* The first sync_spells call made.
FirstSync == IF prevSync.called THEN prevSync ELSE lastSync

\* The registry and the indices are those one initialisation of the tree
\* leaves.
AsAfterOneInitialization ==
    LET d == DiscoverAndLoadSpells(lastRoot, EmptyRegistry, _strict_mode)
    IN  /\ registry = d.registry
        /\ index = SyncSpells(d.registry, FirstSync.before, NoFault).index
        /\ masterIndex = SyncGrimoriumsMetadata(grimoriums, [id \in {} |-> EmptyText],
                                                EmptyCollection, NoMetaFault).master

\* C37 as stated: when two initialize() calls overlap, the second starting
\* while the first is suspended in the metadata sync, discovery and
\* synchronisation still run exactly once, and the registry and the indices
\* end as after a single initialisation.
C37_OverlapRunsOnce ==
    (BothReturned /\ Overlapped) =>
        /\ passes = 1 /\ syncCalls = 1
        /\ AsAfterOneInitialization

\* C37 amended: of two initialize() calls that overlap each one runs
\* discovery and synchronisation, and they run exactly once when the second
\* call starts after the first has returned; either way the toolset is
\* initialised and the registry and the indices end as after a single
\* initialisation.
C37_OverlapRunsOncePerCall ==
    BothReturned =>
        /\ passes = (IF Overlapped THEN 2 ELSE 1)
        /\ syncCalls = passes
        /\ _initialized
        /\ AsAfterOneInitialization

\* Two overlapping calls have returned: discovery ran twice over a tree with
\* spells, the second sync_spells skipped what the first had upserted.
C37_Witness ==
    /\ BothReturned /\ Overlapped
    /\ passes = 2 /\ syncCalls = 2
    /\ DOMAIN registry # {}
    /\ prevSync.upserts # {} /\ lastSync.upserts = {}
    /\ _initialized

----------------------------------------------------------------------------
(* Specification of the argument preparation of execute_spell: calls with    *)
(* any signature and any arguments.                                          *)

ParamNames == {"tool_context", "ctx", "x"}

\* The signatures of one or two parameters.
Signatures ==
    {<<Param(n, a)>> : n \in ParamNames, a \in BOOLEAN}
        \cup {sig \in {<<Param(n1, a1), Param(n2, a2)>> :
                           n1 \in ParamNames, n2 \in ParamNames,
                           a1 \in BOOLEAN, a2 \in BOOLEAN} : sig[1].name # sig[2].name}

\* The caller's mappings: some of the names, each with the caller's value.
ArgumentMaps == {[n \in ns |-> "supplied"] : ns \in SUBSET ParamNames}

CallPrepare(sig, arguments) ==
    /\ \E r \in {PrepareCallArgs(sig, arguments, "tool_context object")} :
           lastInject' = [called |-> TRUE, sig |-> sig, passed |-> arguments,
                          arguments |-> r.arguments, call_args |-> r.call_args]
    /\ UNCHANGED lastPrompt
    /\ UNCHANGED <<polVars, discVars, syncVars, hashVars, metaVars, searchVars, grimVars>>

InjectNext == \E sig \in Signatures, arguments \in ArgumentMaps : CallPrepare(sig, arguments)

SpecInject == Init /\ [][InjectNext]_vars

\* C39: execute_spell injects the tool context into a parameter only when
\* the caller's arguments do not supply it: a value the caller supplied is
\* never overwritten, and the caller's mapping is left as it was passed.
C39_SuppliedNeverOverwritten ==
    lastInject.called =>
        /\ \A n \in DOMAIN lastInject.passed :
               lastInject.call_args[n] = lastInject.passed[n]
        /\ lastInject.arguments = lastInject.passed

\* What does hold: a value supplied for a parameter that is not annotated
\* with ToolContext is kept, and the caller's mapping is left as passed.
UnannotatedKept ==
    lastInject.called =>
        /\ \A n \in DOMAIN lastInject.passed :
               (\A i \in 1..Len(lastInject.sig) :
                    lastInject.sig[i].name = n => ~lastInject.sig[i].annotated)
                   => lastInject.call_args[n] = lastInject.passed[n]
        /\ lastInject.arguments = lastInject.passed

----------------------------------------------------------------------------
(* Specification of the summarisation prompt: the tool data built from any   *)
(* docstrings.                                                               *)

MaxDocs == 2

MaxDocLen == 3

\* The limit of tool_data, 8000 characters in the code, in pieces.
MaxToolData == 5

Pieces == {"END_TOOL_", "DATA", "_ESC", "x"}

RECURSIVE TextsUpTo(_)
TextsUpTo(n) ==
    IF n = 0 THEN {<<>>}
    ELSE TextsUpTo(n - 1) \cup {Append(t, c) : t \in {u \in TextsUpTo(n - 1) : Len(u) = n - 1},
                                               c \in Pieces}

RECURSIVE DocLists(_)
DocLists(n) ==
    IF n = 0 THEN {<<>>}
    ELSE DocLists(n - 1) \cup {Append(ds, d) : ds \in {u \in DocLists(n - 1) : Len(u) = n - 1},
                                              d \in TextsUpTo(MaxDocLen) \ {<<>>}}

\* The docstrings _extract_spell_docs has gathered from a collection.
PromptInit ==
    /\ PolIdle /\ DiscIdle /\ SyncIdle /\ HashIdle /\ MetaIdle /\ SearchIdle /\ GrimIdle
    /\ lastInject = NoInject
    /\ lastPrompt \in {[built |-> FALSE, spell_docs |-> ds, tool_data |-> <<>>] :
                          ds \in DocLists(MaxDocs)}

\* The prompt is built from the gathered docstrings.
BuildPrompt ==
    /\ ~lastPrompt.built
    /\ lastPrompt' = [built |-> TRUE, spell_docs |-> lastPrompt.spell_docs,
                      tool_data |-> ToolData(lastPrompt.spell_docs, MaxToolData)]
    /\ UNCHANGED lastInject
    /\ UNCHANGED <<polVars, discVars, syncVars, hashVars, metaVars, searchVars, grimVars>>

PromptNext == BuildPrompt

SpecPrompt == PromptInit /\ [][PromptNext]_vars

\* C38: the tool data placed between the START_TOOL_DATA and END_TOOL_DATA
\* markers of the prompt never holds the literal marker END_TOOL_DATA,
\* whatever the docstrings hold.
C38_ToolDataHoldsNoEndMarker ==
    lastPrompt.built => ~Occurs(EndMarker, lastPrompt.tool_data)

----------------------------------------------------------------------------
(* Specification of the admission policy alone: any sequence of calls. *)

PolicyInit == PolIdle /\ DiscIdle /\ SyncIdle /\ HashIdle /\ MetaIdle /\ SearchIdle /\ GrimIdle /\ UnitIdle

CallIsSpellAllowed(n, m) ==
    /\ polName' = n
    /\ polManifest' = m
    /\ polResult' = IsSpellAllowed(n, m)
    /\ polCalled' = TRUE
    /\ UNCHANGED <<discVars, syncVars, hashVars, metaVars, searchVars, grimVars, unitVars>>

PolicyNext ==
    \E n \in Names, m \in ManifestDicts \cup {None} : CallIsSpellAllowed(n, m)

SpecPolicy == PolicyInit /\ [][PolicyNext]_vars

\* C1: is_allowed(name, manifest) is true exactly when the manifest is absent,
\* or enabled is not false and (whitelist is absent or holds name) and name is
\* not in the blacklist.
C1_AdmissionPolicy ==
    polCalled =>
        (polResult <=>
            \/ polManifest.isNone
            \/ /\ ~("enabled" \in polManifest.keys /\ polManifest.enabled = FALSE)
               /\ ("whitelist" \notin polManifest.keys \/ polName \in polManifest.whitelist)
               /\ ~("blacklist" \in polManifest.keys /\ polName \in polManifest.blacklist))

\* A call on a name that is in both lists of an enabled manifest was denied.
C1_Witness ==
    /\ polCalled
    /\ ~polManifest.isNone
    /\ {"whitelist", "blacklist"} \subseteq polManifest.keys
    /\ polName \in polManifest.whitelist \cap polManifest.blacklist
    /\ Get(polManifest, "enabled", TRUE)
    /\ polResult = FALSE

====
